---- MODULE Spec2Model ----
(***************************************************************************)
(* Model of the product-details ETL (src/pipelines/load/                   *)
(* load_products_details.py) and of the convergence scroll handlers        *)
(* (src/scraping/best_sells_scraping.py, src/scraping/page_scraping.py).   *)
(*                                                                         *)
(* Three groups of state:                                                  *)
(*   - the batch orchestrator run_etl_batch with the per item attempt      *)
(*     scrape_and_load_product_details and the database it writes,         *)
(*   - the review loader insert_reviews_incremental called on its own,     *)
(*   - the scroll loop scroll_until_all_loaded.                            *)
(* Each group has its own specification; a specification leaves the        *)
(* variables of the other groups untouched.                                *)
(*                                                                         *)
(* Time is counted in ticks, TicksPerDay ticks to a calendar day.  A       *)
(* timestamp is a tick, its DATE is (tick \div TicksPerDay).               *)
(* Database writes either commit or fail (the except branch rolls back and *)
(* the function returns False); reads that the code does not wrap in a     *)
(* try block may raise.                                                    *)
(***************************************************************************)
EXTENDS Integers, Sequences, FiniteSets, TLC

\* ---------------------------------------------------------------- bounds
TicksPerDay == 2
StartNow == 4
MaxTicks == 1
MaxNow == StartNow + MaxTicks
MaxDaysThreshold == 2
MaxLimit == 1
MaxReviewId == 3
MaxIncoming == 3
MaxLoaderCalls == 2
MaxStep == 2
MaxAttemptsCfg == 2
MaxHeight == 3
MaxCount == 2
MaxFeed == 4
MaxFeedCount == 1
MaxPages == 3
MaxPerPage == 2
MaxSessions == 3
MaxPrice == 2
MaxPriceCalls == 3
MaxErrors == 1
MaxSignals == 2
MaxListing == 3

NULL == 0 - 1

Asins == {"A", "B", "C"}
ReviewIds == 1 .. MaxReviewId

SeqsUpTo(S, n) == UNION {[1 .. k -> S] : k \in 0 .. n}

Min(x, y) == IF x < y THEN x ELSE y

\* ------------------------------------------------------------- variables
VARIABLES
    now,                  \* NOW() of the database, in ticks
    catalog,              \* the asins that have a row in core.products
    page,                 \* per asin: the record the product page yields when scraped
    latest_batch,         \* the asins of the rows of raw.best_sellers with the
                          \* latest scraped_at
    entry_point,          \* the entry point called: "batch" (run_etl_batch) or
                          \* "top100" (run_etl_for_latest_top100)
    has_details,          \* core.products.has_details, per asin
    last_details_scrape,  \* core.products.last_details_scrape, per asin (NULL or tick)
    has_price_history,    \* core.products.has_price_history, per asin
    details_rows,         \* number of rows of raw.product_details, per asin
    price_history,        \* raw.price_history: per asin the set of price_date days
    review_rows,          \* raw.reviews: per asin, per review_id, the number of rows
    shutdown_requested,   \* the global _shutdown_requested
    pc,                   \* position of the orchestrator
    limit,                \* run_etl_batch(limit=...), NULL for None
    days_threshold,       \* run_etl_batch(days_threshold=...)
    force,                \* scrape_and_load_product_details(force=...)
    handlers_installed,   \* _signal_handler is installed for SIGINT and SIGTERM
    products,             \* the list fetched at batch start
    idx,                  \* 1-based loop index i
    stats,                \* the stats dictionary
    result,               \* the ScrapeResult of the last attempt
    last_delay,           \* the delay policy applied after the last item
    phase,                \* per asin: how far work on the item got in this run
    att,                  \* audit of the current attempt (what was touched)
    sel,                  \* NOW() and the timestamps when the work list was fetched;
                          \* clean: no fault was caught and no write failed since
    ld,                   \* review loader called on its own: last call
    ld_calls,             \* number of loader calls made
    sc,                   \* state of scroll_until_all_loaded
    pg,                   \* state of the listing scraper (_scrape_all_pages)
    drv,                  \* render sessions: the scraper object at work and the
                          \* browser sessions that are open
    wr,                   \* the retry loop of load_details.py
    signals,              \* number of signals _signal_handler has handled
    pr,                   \* raw.price_history with its prices, written by
                          \* insert_price_history called on its own
    conn,                 \* the catalog connection of the run: "none", "open", "closed"
    ret,                  \* what the run gave its caller: "none", "stats", "raised"
    etl                   \* the listing ETL (BestSellersETL.run): the scraped
                          \* listing, the filtered list and the rows loaded

dbVars == <<has_details, last_details_scrape, has_price_history, details_rows,
            price_history, review_rows>>
runVars == <<shutdown_requested, pc, limit, days_threshold, force, handlers_installed,
             products, idx,
             stats, result, last_delay, phase, att, sel>>
ldVars == <<ld, ld_calls>>
envVars == <<catalog, page, latest_batch, entry_point>>
exitVars == <<conn, ret>>
auxVars == <<drv, wr, signals, pr, exitVars, etl>>
vars == <<now, envVars, dbVars, runVars, ldVars, sc, pg, auxVars>>

\* ------------------------------------------------------ dates and gating
DateOf(t) == t \div TicksPerDay

\* was_updated_today: last_details_scrape::DATE = CURRENT_DATE
was_updated_today_mut(a) ==
    last_details_scrape[a] # NULL

was_updated_today(a) ==
    /\ last_details_scrape[a] # NULL
    /\ DateOf(last_details_scrape[a]) = DateOf(now)

\* WHERE clause of get_products_needing_details
NeedsDetails(a, d) ==
    \/ has_details[a] = FALSE
    \/ last_details_scrape[a] = NULL
    \/ last_details_scrape[a] < now - TicksPerDay * d

\* ORDER BY has_details ASC, last_details_scrape ASC NULLS FIRST
OrderKeyLeq(a, b) ==
    \/ has_details[a] = FALSE /\ has_details[b] = TRUE
    \/ /\ has_details[a] = has_details[b]
       /\ \/ last_details_scrape[a] = NULL
          \/ /\ last_details_scrape[b] # NULL
             /\ last_details_scrape[a] <= last_details_scrape[b]

IsOrdering(s, S) ==
    /\ {s[k] : k \in 1 .. Len(s)} = S
    /\ Len(s) = Cardinality(S)
    /\ \A j, k \in 1 .. Len(s) : j < k => OrderKeyLeq(s[j], s[k])

Take(s, n) == IF n = NULL \/ n >= Len(s) THEN s ELSE SubSeq(s, 1, n)

\* the lists get_products_needing_details(conn, lim, d) may return
get_products_needing_details(lim, d) ==
    LET S == {a \in catalog : NeedsDetails(a, d)}
    IN  {Take(s, lim) : s \in {q \in SeqsUpTo(catalog, Cardinality(catalog)) : IsOrdering(q, S)}}

\* WHERE clause of get_products_from_latest_scrape, lines 276-280
LatestNeedsDetails_mut(a) ==
    \/ has_details[a] = FALSE
    \/ last_details_scrape[a] = NULL
    \/ last_details_scrape[a] < now - TicksPerDay

LatestNeedsDetails(a) ==
    \/ has_details[a] = FALSE
    \/ last_details_scrape[a] = NULL
    \/ DateOf(last_details_scrape[a]) < DateOf(now)

\* ORDER BY p.has_details ASC
LatestOrdering(s, S) ==
    /\ {s[k] : k \in 1 .. Len(s)} = S
    /\ Len(s) = Cardinality(S)
    /\ \A j, k \in 1 .. Len(s) : j < k => (has_details[s[j]] => has_details[s[k]])

\* the lists get_products_from_latest_scrape(conn, lim) may return: the
\* products joined with the rows of the latest listing scrape
get_products_from_latest_scrape(lim) ==
    LET S == {a \in catalog \cap latest_batch : LatestNeedsDetails(a)}
    IN  {Take(s, lim) : s \in {q \in SeqsUpTo(catalog, Cardinality(catalog)) :
                                    LatestOrdering(q, S)}}

\* get_products_from_latest_scrape(conn, limit=100), line 1111
Top100Limit == 100

\* the work list of the entry point called, lines 984 and 1111
WorkLists ==
    IF entry_point = "top100"
    THEN get_products_from_latest_scrape(Top100Limit)
    ELSE get_products_needing_details(limit, days_threshold)

\* ------------------------------------------------------- review loader
\* get_existing_review_ids: SELECT review_id FROM raw.reviews WHERE asin = a
get_existing_review_ids(rows_a) == {r \in DOMAIN rows_a : rows_a[r] > 0}

\* new_reviews = [r for r in reviews if r.review_id not in existing_ids]
NewReviews_mut(rows_a, reviews) == reviews

NewReviews(rows_a, reviews) ==
    SelectSeq(reviews, LAMBDA r : r \notin get_existing_review_ids(rows_a))

\* INSERT INTO raw.reviews ... ON CONFLICT (asin, review_id) DO NOTHING
InsertReviewRow_mut(rows_a, r) == [rows_a EXCEPT ![r] = @ + 1]

InsertReviewRow(rows_a, r) ==
    IF rows_a[r] > 0 THEN rows_a ELSE [rows_a EXCEPT ![r] = 1]

\* the for loop over new_reviews: oks[k] tells whether the k-th execute and
\* commit go through; a failed one is rolled back and the loop goes on
RECURSIVE InsertLoop_mut(_, _, _)
InsertLoop_mut(rows_a, new, oks) ==
    IF new = <<>> \/ ~Head(oks)
    THEN [rows |-> rows_a, inserted |-> 0, attempted |-> IF new = <<>> THEN 0 ELSE 1]
    ELSE LET rest == InsertLoop_mut(InsertReviewRow(rows_a, Head(new)), Tail(new), Tail(oks))
         IN  [rows |-> rest.rows,
              inserted |-> rest.inserted + 1,
              attempted |-> rest.attempted + 1]

RECURSIVE InsertLoop(_, _, _)
InsertLoop(rows_a, new, oks) ==
    IF new = <<>>
    THEN [rows |-> rows_a, inserted |-> 0, attempted |-> 0]
    ELSE LET rows1 == IF Head(oks) THEN InsertReviewRow(rows_a, Head(new)) ELSE rows_a
             rest == InsertLoop(rows1, Tail(new), Tail(oks))
         IN  [rows |-> rest.rows,
              inserted |-> rest.inserted + (IF Head(oks) THEN 1 ELSE 0),
              attempted |-> rest.attempted + 1]

\* insert_reviews_incremental(conn, asin, reviews) on the rows of that asin
insert_reviews_incremental(rows_a, reviews, oks) ==
    IF reviews = <<>>
    THEN [rows |-> rows_a, inserted |-> 0, skipped |-> 0, attempted |-> 0]
    ELSE LET new_reviews == NewReviews(rows_a, reviews)
             skipped == Len(reviews) - Len(new_reviews)
         IN  IF new_reviews = <<>>
             THEN [rows |-> rows_a, inserted |-> 0, skipped |-> skipped, attempted |-> 0]
             ELSE LET w == InsertLoop(rows_a, new_reviews, oks)
                  IN  [rows |-> w.rows, inserted |-> w.inserted,
                       skipped |-> skipped, attempted |-> w.attempted]

\* the commit outcomes a call may meet: one per review it will try to write
WriteOutcomes(rows_a, reviews) ==
    [1 .. Len(NewReviews(rows_a, reviews)) -> BOOLEAN]

Keys(s) == {s[k] : k \in 1 .. Len(s)}
StoredKeys(rows_a) == {r \in DOMAIN rows_a : rows_a[r] > 0}
CountTrue(oks) == Cardinality({k \in 1 .. Len(oks) : oks[k]})
NoRows == [r \in ReviewIds |-> 0]
\* the last call of the loader on its own: its arguments, the rows of the asin
\* before it, the commit outcomes it met and what it returned; repeat: the call
\* before it had the same arguments and returned; prev_clean: no write of that
\* call failed
NoCall == [asin |-> "A", incoming |-> <<>>, before |-> NoRows, oks |-> <<>>,
           raised |-> FALSE, inserted |-> 0, skipped |-> 0, attempted |-> 0,
           repeat |-> FALSE, prev_clean |-> FALSE]

\* ------------------------------------------------- records and outcomes
\* ProductDetails as the ETL reads it.  price: "NA" ('' or 'N/A'), "unusable"
\* (text that parse_price turns into None or into 0) or "ok"; rating, brand,
\* total_reviews: known or not; reviews: the review ids extracted
PriceKinds == {"NA", "unusable", "ok"}
PageReviewLists == {<<>>, <<1, 2>>, <<2, 2>>}
DetailsRecords ==
    [price : PriceKinds, rating : BOOLEAN, brand : BOOLEAN,
     total_reviews : BOOLEAN, reviews : PageReviewLists]

\* what scraper.scrape may raise: the exception class and what its message holds
FaultTypes == {"ConnectionError", "TimeoutError", "Exception"}
\* the words of line 871; a message holds one of them or none ("other"), written
\* in lower case or in upper case
BlockWords == {"captcha", "503", "429", "rate", "blocked", "denied", "forbidden"}
FaultMsgs == [word : BlockWords \cup {"other"}, upper : BOOLEAN]
Faults == [type : FaultTypes, msg : FaultMsgs]
NoFault == [type |-> "none", msg |-> [word |-> "other", upper |-> FALSE]]
Interrupt == [NoFault EXCEPT !.type = "KeyboardInterrupt"]

\* str(e).lower()
Lower_mut(m) == m

Lower(m) == [m EXCEPT !.upper = FALSE]

\* "word in error_msg": the match is case sensitive, digits have one case
Contains(m, w) == m.word = w /\ (~m.upper \/ w \in {"503", "429"})

Statuses == {"success", "skipped", "no_data", "server_error", "network_error",
             "parse_error", "interrupted", "unknown_error"}

\* ScrapeResult(asin, status) with the dataclass defaults
MkResult_mut(a, st) ==
    [asin |-> a, status |-> IF st = "no_data" THEN "parse_error" ELSE st,
     price_saved |-> FALSE, reviews_added |-> 0, details_saved |-> FALSE]

MkResult(a, st) ==
    [asin |-> a, status |-> st, price_saved |-> FALSE, reviews_added |-> 0,
     details_saved |-> FALSE]

NoResult == MkResult("A", "success")

\* validate_scraped_data: at least price or rating
validate_scraped_data_mut(d) == TRUE

validate_scraped_data(d) == d.price # "NA" \/ d.rating

\* detect_server_block(details) without error: all four main fields are N/A
detect_server_block_mut(d) == d.price = "NA" /\ ~d.rating

detect_server_block(d) ==
    d.price = "NA" /\ ~d.rating /\ ~d.brand /\ ~d.total_reviews

\* price = parse_price(details.price); "if price and ..."
PriceUsable(d) == d.price = "ok"

\* the except clauses of scrape_and_load_product_details
ClassifyFault_mut(f) ==
    IF f.type = "ConnectionError" THEN "network_error"
    ELSE IF \E w \in BlockWords : Contains(Lower(f.msg), w) THEN "server_error"
    ELSE "unknown_error"

ClassifyFault(f) ==
    IF f.type \in {"ConnectionError", "TimeoutError"} THEN "network_error"
    ELSE IF \E w \in BlockWords : Contains(Lower(f.msg), w) THEN "server_error"
    ELSE "unknown_error"

\* "if result.details_saved or result.price_saved"
StatusCondition_mut(r) == TRUE

StatusCondition(r) == r.details_saved \/ r.price_saved

\* ---------------------------------------------- one attempt: the audit
\* what the current attempt has touched so far (history of the attempt):
\* rendered: a render session was opened; fault: the exception the attempt
\* caught, if any; flag_seen: the flag was found set at
\* the check after scraping; valid: the record passed validate_scraped_data;
\* writes / committed: the stores a write was attempted on / committed to
NewAtt(a) ==
    [asin |-> a, rendered |-> FALSE, flag_seen |-> FALSE, valid |-> FALSE,
     writes |-> {}, committed |-> {}, fault |-> NoFault,
     pre_has |-> has_details[a], pre_last |-> last_details_scrape[a]]

NoAtt ==
    [asin |-> "A", rendered |-> FALSE, flag_seen |-> FALSE, valid |-> FALSE,
     writes |-> {}, committed |-> {}, fault |-> NoFault,
     pre_has |-> FALSE, pre_last |-> NULL]

CurAsin_mut == products[1]

CurAsin == products[idx]

\* "if price and insert_price_history(conn, asin, price)", line 809: the price
\* write is tried whatever became of the details write (result r so far)
TryPrice_mut(d, r) == PriceUsable(d) /\ r.details_saved

TryPrice(d, r) == PriceUsable(d)

\* ------------------------------------------- the save path of an attempt
\* lines 794-833 for asin a and record d.  wd, wp, ws: whether the writes of
\* insert_product_details, insert_price_history and
\* update_product_details_status commit; oks: the per review outcomes
SavePath(a, d, wd, wp, oks, ws) ==
    LET r1 == [MkResult(a, "success") EXCEPT !.details_saved = wd]
        tryPrice == TryPrice(d, r1)
        r2 == [r1 EXCEPT !.price_saved = tryPrice /\ wp]
        tryReviews == d.reviews # <<>>
        lr == insert_reviews_incremental(review_rows[a], d.reviews, oks)
        r3 == IF tryReviews THEN [r2 EXCEPT !.reviews_added = lr.inserted] ELSE r2
        mark == StatusCondition(r3)
        r4 == IF mark THEN r3 ELSE [r3 EXCEPT !.status = "no_data"]
    IN  [result |-> r4,
         writes |-> {"details"} \cup (IF tryPrice THEN {"price"} ELSE {})
                      \cup (IF tryReviews THEN {"reviews"} ELSE {})
                      \cup (IF mark THEN {"status"} ELSE {}),
         committed |-> (IF wd THEN {"details"} ELSE {})
                      \cup (IF tryPrice /\ wp THEN {"price"} ELSE {})
                      \cup (IF tryReviews /\ lr.rows # review_rows[a] THEN {"reviews"} ELSE {})
                      \cup (IF mark /\ ws THEN {"status"} ELSE {}),
         details_rows |-> IF wd THEN details_rows[a] + 1 ELSE details_rows[a],
         price_saved |-> tryPrice /\ wp,
         rows |-> IF tryReviews THEN lr.rows ELSE review_rows[a],
         marked |-> mark /\ ws,
         clean |-> /\ wd
                   /\ tryPrice => wp
                   /\ tryReviews => lr.inserted = lr.attempted
                   /\ mark => ws]

\* the effect of the save path on the database
ApplySave(a, sp) ==
    /\ details_rows' = [details_rows EXCEPT ![a] = sp.details_rows]
    /\ price_history' = IF sp.price_saved
                        THEN [price_history EXCEPT ![a] = @ \cup {DateOf(now)}]
                        ELSE price_history
    /\ has_price_history' = IF sp.price_saved
                            THEN [has_price_history EXCEPT ![a] = TRUE]
                            ELSE has_price_history
    /\ review_rows' = [review_rows EXCEPT ![a] = sp.rows]
    /\ has_details' = IF sp.marked THEN [has_details EXCEPT ![a] = TRUE] ELSE has_details
    /\ last_details_scrape' = IF sp.marked
                              THEN [last_details_scrape EXCEPT ![a] = now]
                              ELSE last_details_scrape

\* ------------------------------------------------------------- actions
Terminal == {"done", "aborted"}

\* "if conn: conn.close()" of the finally block, lines 1066-1068
ClosedAtExit_mut(c) == c

ClosedAtExit(c) == IF c = "open" THEN "closed" ELSE c

\* what the caller gets on an exit path ("normal", "empty", "cancelled",
\* "fault"): the except clauses at lines 1057-1061 swallow the exception and
\* every path ends in "return stats", lines 990 and 1071
ExitValue_mut(path) == IF path = "fault" THEN "raised" ELSE "stats"

ExitValue(path) == "stats"

\* the finally block, lines 1062-1069, and the return: the handlers saved at
\* lines 958-959 are put back, the connection is closed if there is one
ExitRun(path, c) ==
    /\ handlers_installed' = FALSE
    /\ conn' = ClosedAtExit(c)
    /\ ret' = ExitValue(path)

StayInRun == UNCHANGED <<handlers_installed, conn, ret>>

\* time passes
Tick ==
    /\ pc \notin Terminal \cup {"returned", "raised"}
    /\ now < MaxNow
    /\ now' = now + 1
    /\ UNCHANGED <<envVars, dbVars, runVars, ldVars, sc, pg, auxVars>>

\* _signal_handler: SIGINT or SIGTERM arrives while the handler is installed
Signal ==
    /\ pc \notin Terminal
    /\ handlers_installed
    /\ ~shutdown_requested
    /\ shutdown_requested' = TRUE
    /\ signals' = signals + 1
    /\ UNCHANGED <<drv, wr, pr, exitVars, etl>>
    /\ UNCHANGED <<now, envVars, dbVars, pc, limit, days_threshold, force, handlers_installed,
                   products, idx, stats, result, last_delay, phase, att, sel, ldVars, sc, pg>>

\* run_etl_batch lines 978-994, run_etl_for_latest_top100 lines 1105-1116:
\* connect and fetch the work list
Connect ==
    /\ pc = "start"
    /\ \E ps \in WorkLists :
          /\ products' = ps
          /\ stats' = [stats EXCEPT !.total = Len(ps)]
          /\ pc' = IF ps = <<>> THEN "done" ELSE "loop"
          /\ IF ps = <<>>
             THEN ExitRun("empty", "open")
             ELSE conn' = "open" /\ UNCHANGED <<handlers_installed, ret>>
    /\ idx' = 1
    /\ sel' = [now |-> now, last |-> last_details_scrape, clean |-> TRUE]
    /\ UNCHANGED <<now, envVars, dbVars, shutdown_requested, limit, days_threshold, force,
                   result, last_delay, phase, att, ldVars, sc, pg, drv, wr, signals, pr, etl>>

\* get_db_connection (or the first query) raises: except Exception, line 1060
ConnectFails ==
    /\ pc = "start"
    /\ pc' = "aborted"
    /\ ExitRun("fault", conn)
    /\ UNCHANGED <<now, envVars, dbVars, shutdown_requested, limit, days_threshold, force,
                   products, idx, stats, result, last_delay,
                   phase, att, sel, ldVars, sc, pg, drv, wr, signals, pr, etl>>

\* get_db_connection returns and the query of the work list raises, line 984
\* (1111 in run_etl_for_latest_top100): caught at line 1060
FetchFails ==
    /\ pc = "start"
    /\ pc' = "aborted"
    /\ ExitRun("fault", "open")
    /\ UNCHANGED <<now, envVars, dbVars, shutdown_requested, limit, days_threshold, force,
                   products, idx, stats, result, last_delay,
                   phase, att, sel, ldVars, sc, pg, drv, wr, signals, pr, etl>>

\* the shutdown check at the top of the for loop, lines 996-1001
LoopCheckStops_mut == FALSE

LoopCheckStops == shutdown_requested

LoopTop ==
    /\ pc = "loop"
    /\ IF idx > Len(products)
       THEN pc' = "done" /\ stats' = stats /\ ExitRun("normal", conn)
       ELSE IF LoopCheckStops
            THEN /\ pc' = "done"
                 /\ stats' = [stats EXCEPT !.interrupted = TRUE]
                 /\ ExitRun("cancelled", conn)
            ELSE pc' = "entry" /\ stats' = stats /\ StayInRun
    /\ UNCHANGED <<now, envVars, dbVars, shutdown_requested, limit, days_threshold, force,
                   products, idx, result, last_delay, phase,
                   att, sel, ldVars, sc, pg, drv, wr, signals, pr, etl>>

\* the shutdown check on entry of scrape_and_load_product_details, lines 727-733
EntryCheckStops_mut == FALSE

EntryCheckStops == shutdown_requested

Entry ==
    /\ pc = "entry"
    /\ att' = NewAtt(CurAsin)
    /\ IF EntryCheckStops
       THEN /\ result' = MkResult(CurAsin, "interrupted")
            /\ pc' = "returned"
            /\ phase' = phase
       ELSE /\ result' = result
            /\ pc' = "gate"
            /\ phase' = [phase EXCEPT ![CurAsin] = "ENTERED"]
    /\ UNCHANGED <<now, envVars, dbVars, shutdown_requested, limit, days_threshold, force,
                   handlers_installed, products, idx, stats, last_delay, sel, ldVars, sc, pg, auxVars>>

\* the gate, lines 735-742: "if not force and was_updated_today(conn, asin)"
GateSkips_mut(a) == was_updated_today(a)

GateSkips(a) == ~force /\ was_updated_today(a)

Gate ==
    /\ pc = "gate"
    /\ IF GateSkips(CurAsin)
       THEN /\ result' = MkResult(CurAsin, "skipped")
            /\ pc' = "returned"
            /\ phase' = [phase EXCEPT ![CurAsin] = "GATED"]
       ELSE /\ result' = result
            /\ pc' = "scrape"
            /\ phase' = [phase EXCEPT ![CurAsin] = "ATTEMPTING"]
    /\ UNCHANGED <<now, envVars, dbVars, shutdown_requested, limit, days_threshold, force,
                   handlers_installed, products, idx, stats, last_delay, att,
                   sel, ldVars, sc, pg, auxVars>>

\* the query of was_updated_today raises: it is outside the try block, so the
\* exception leaves scrape_and_load_product_details
GateRaises ==
    /\ pc = "gate"
    /\ ~force
    /\ pc' = "raised"
    /\ UNCHANGED <<now, envVars, dbVars, shutdown_requested, limit, days_threshold, force,
                   handlers_installed, products, idx, stats, result, last_delay,
                   phase, att, sel, ldVars, sc, pg, auxVars>>

\* scraper.scrape raises: the except clauses at lines 851-884
ScrapeFaults ==
    /\ pc = "scrape"
    /\ \E f \in Faults :
          /\ result' = MkResult(CurAsin, ClassifyFault(f))
          /\ att' = [att EXCEPT !.rendered = TRUE, !.fault = f]
    /\ sel' = [sel EXCEPT !.clean = FALSE]
    /\ pc' = "returned"
    /\ phase' = [phase EXCEPT ![CurAsin] = "ATTEMPTED"]
    /\ UNCHANGED <<now, envVars, dbVars, shutdown_requested, limit, days_threshold, force,
                   handlers_installed, products, idx, stats, last_delay, ldVars, sc, pg, auxVars>>

\* the record fails validate_scraped_data, lines 764-782
ScrapeRejected ==
    /\ pc = "scrape"
    /\ ~validate_scraped_data(page[CurAsin])
    /\ result' = MkResult(CurAsin, IF detect_server_block(page[CurAsin])
                                   THEN "server_error" ELSE "no_data")
    /\ att' = [att EXCEPT !.rendered = TRUE, !.flag_seen = shutdown_requested]
    /\ pc' = "returned"
    /\ phase' = [phase EXCEPT ![CurAsin] = "ATTEMPTED"]
    /\ UNCHANGED <<now, envVars, dbVars, shutdown_requested, limit, days_threshold, force,
                   handlers_installed, products, idx, stats, last_delay, sel, ldVars, sc, pg, auxVars>>

\* the record is valid and the save path runs to its end, lines 784-833
ScrapeSaves ==
    /\ pc = "scrape"
    /\ validate_scraped_data(page[CurAsin])
    /\ \E wd \in BOOLEAN, wp \in BOOLEAN, ws \in BOOLEAN :
          /\ \E oks \in WriteOutcomes(review_rows[CurAsin], page[CurAsin].reviews) :
                LET sp == SavePath(CurAsin, page[CurAsin], wd, wp, oks, ws)
                IN  /\ ApplySave(CurAsin, sp)
                    /\ result' = sp.result
                    /\ att' = [att EXCEPT !.rendered = TRUE,
                                          !.flag_seen = shutdown_requested,
                                          !.valid = TRUE,
                                          !.writes = sp.writes,
                                          !.committed = sp.committed]
                    /\ sel' = [sel EXCEPT !.clean = @ /\ sp.clean]
    /\ pc' = "returned"
    /\ phase' = [phase EXCEPT ![CurAsin] = "ATTEMPTED"]
    /\ UNCHANGED <<now, envVars, shutdown_requested, limit, days_threshold, force,
                   handlers_installed, products, idx, stats, last_delay, ldVars, sc, pg, auxVars>>

\* the record is valid, the details and price writes run, and then the query of
\* get_existing_review_ids (line 512, not in a try block of its own) raises:
\* the exception is caught at line 867
ScrapeSaveRaises ==
    /\ pc = "scrape"
    /\ validate_scraped_data(page[CurAsin])
    /\ page[CurAsin].reviews # <<>>
    /\ \E wd \in BOOLEAN, wp \in BOOLEAN, m \in FaultMsgs :
          /\ LET sp == SavePath(CurAsin, [page[CurAsin] EXCEPT !.reviews = <<>>],
                                wd, wp, <<>>, FALSE)
             IN  /\ ApplySave(CurAsin, sp)
                 /\ result' = MkResult(CurAsin, ClassifyFault([type |-> "Exception", msg |-> m]))
                 /\ att' = [att EXCEPT !.rendered = TRUE,
                                       !.fault = [type |-> "Exception", msg |-> m],
                                       !.flag_seen = shutdown_requested,
                                       !.valid = TRUE,
                                       !.writes = (sp.writes \ {"status"}) \cup {"reviews"},
                                       !.committed = sp.committed]
    /\ sel' = [sel EXCEPT !.clean = FALSE]
    /\ pc' = "returned"
    /\ phase' = [phase EXCEPT ![CurAsin] = "ATTEMPTED"]
    /\ UNCHANGED <<now, envVars, shutdown_requested, limit, days_threshold, force,
                   handlers_installed, products, idx, stats, last_delay, ldVars, sc, pg, auxVars>>

\* KeyboardInterrupt while scraper.scrape runs (no handler replaces the default
\* one): details is still None, lines 835-849
ScrapeInterruptedEarly ==
    /\ pc = "scrape"
    /\ ~handlers_installed
    /\ result' = MkResult(CurAsin, "interrupted")
    /\ att' = [att EXCEPT !.rendered = TRUE, !.fault = Interrupt]
    /\ pc' = "returned"
    /\ phase' = [phase EXCEPT ![CurAsin] = "ATTEMPTED"]
    /\ UNCHANGED <<now, envVars, dbVars, shutdown_requested, limit, days_threshold, force,
                   handlers_installed, products, idx, stats, last_delay, sel, ldVars, sc, pg, auxVars>>

\* KeyboardInterrupt right after scraper.scrape returned the record: a valid
\* record is saved as partial data with insert_product_details, lines 837-844
ScrapeInterruptedLate ==
    /\ pc = "scrape"
    /\ ~handlers_installed
    /\ \E wd \in BOOLEAN :
          LET v == validate_scraped_data(page[CurAsin])
          IN  /\ details_rows' = IF v /\ wd THEN [details_rows EXCEPT ![CurAsin] = @ + 1]
                                 ELSE details_rows
              /\ att' = [att EXCEPT !.rendered = TRUE,
                                    !.fault = Interrupt,
                                    !.valid = v,
                                    !.writes = IF v THEN {"details"} ELSE {},
                                    !.committed = IF v /\ wd THEN {"details"} ELSE {}]
    /\ result' = MkResult(CurAsin, "interrupted")
    /\ pc' = "returned"
    /\ phase' = [phase EXCEPT ![CurAsin] = "ATTEMPTED"]
    /\ UNCHANGED <<now, envVars, has_details, last_details_scrape, has_price_history,
                   price_history, review_rows, shutdown_requested, limit, days_threshold,
                   force, handlers_installed, products, idx, stats, last_delay, sel,
                   ldVars, sc, pg, auxVars>>

\* the writes of the save path in the order the code issues them, lines 803-826
SaveStages == <<"details", "price", "reviews", "status">>

StagesDone(k) == {SaveStages[j] : j \in 1 .. k}

\* KeyboardInterrupt during the save path, after the first k writes of it
\* returned: these writes stay, the except clause at lines 835-849 saves the
\* valid record once more with insert_product_details and returns interrupted
ScrapeInterruptedInSave ==
    /\ pc = "scrape"
    /\ ~handlers_installed
    /\ validate_scraped_data(page[CurAsin])
    /\ \E k \in 1 .. Len(SaveStages), wd \in BOOLEAN, wp \in BOOLEAN, ws \in BOOLEAN,
          wd2 \in BOOLEAN :
          \E oks \in WriteOutcomes(review_rows[CurAsin], page[CurAsin].reviews) :
             LET sp == SavePath(CurAsin, page[CurAsin], wd, wp, oks, ws)
                 done == [sp EXCEPT !.price_saved = sp.price_saved /\ k >= 2,
                                    !.rows = IF k >= 3 THEN sp.rows ELSE review_rows[CurAsin],
                                    !.marked = sp.marked /\ k >= 4,
                                    !.details_rows = sp.details_rows + (IF wd2 THEN 1 ELSE 0)]
             IN  /\ ApplySave(CurAsin, done)
                 /\ att' = [att EXCEPT !.rendered = TRUE,
                                       !.fault = Interrupt,
                                       !.valid = TRUE,
                                       !.writes = sp.writes \cap StagesDone(k),
                                       !.committed = (sp.committed \cap StagesDone(k))
                                                       \cup (IF wd2 THEN {"details"} ELSE {})]
    /\ sel' = [sel EXCEPT !.clean = FALSE]
    /\ result' = MkResult(CurAsin, "interrupted")
    /\ pc' = "returned"
    /\ phase' = [phase EXCEPT ![CurAsin] = "ATTEMPTED"]
    /\ UNCHANGED <<now, envVars, shutdown_requested, limit, days_threshold, force,
                   handlers_installed, products, idx, stats, last_delay, ldVars, sc, pg, auxVars>>

\* the statistics key and the delay policy of an outcome, lines 1013-1041
StatKey_mut(st) ==
    IF st \in {"success", "skipped", "no_data"} THEN st ELSE "other_errors"

StatKey(st) ==
    CASE st = "success" -> "success"
      [] st = "skipped" -> "skipped"
      [] st = "no_data" -> "no_data"
      [] st = "server_error" -> "server_errors"
      [] st = "network_error" -> "network_errors"
      [] OTHER -> "other_errors"

\* the DELAY_* ranges, in tenths of a second
DELAY_MIN_SUCCESS == 30
DELAY_MAX_SUCCESS == 80
DELAY_MIN_SKIP == 5
DELAY_MAX_SKIP == 15
DELAY_MIN_SERVER_ERROR == 300
DELAY_MAX_SERVER_ERROR == 600
DELAY_MIN_NETWORK_ERROR == 100
DELAY_MAX_NETWORK_ERROR == 200
DELAY_MIN_ERROR == 50
DELAY_MAX_ERROR == 100

\* the arguments of random_delay for a delay policy
DelayRange(policy) ==
    CASE policy = "success" -> <<DELAY_MIN_SUCCESS, DELAY_MAX_SUCCESS>>
      [] policy = "skip" -> <<DELAY_MIN_SKIP, DELAY_MAX_SKIP>>
      [] policy = "server_error" -> <<DELAY_MIN_SERVER_ERROR, DELAY_MAX_SERVER_ERROR>>
      [] policy = "network_error" -> <<DELAY_MIN_NETWORK_ERROR, DELAY_MAX_NETWORK_ERROR>>
      [] policy = "error" -> <<DELAY_MIN_ERROR, DELAY_MAX_ERROR>>

\* the if / elif chain of run_etl_for_latest_top100, lines 1132-1159
DelayForTop100(st) ==
    IF st = "success" THEN "success"
    ELSE IF st = "skipped" THEN "skip"
    ELSE IF st = "no_data" THEN "error"
    ELSE IF st = "server_error" THEN "server_error"
    ELSE IF st = "network_error" THEN "network_error"
    ELSE "error"

\* the if / elif chain of run_etl_batch, lines 1012-1041
DelayFor_mut(st) ==
    CASE st = "success" -> "success"
      [] st = "skipped" -> "skip"
      [] st = "server_error" -> "server_error"
      [] OTHER -> "error"

DelayFor(st) ==
    CASE st = "success" -> "success"
      [] st = "skipped" -> "skip"
      [] st = "no_data" -> "error"
      [] st = "server_error" -> "server_error"
      [] st = "network_error" -> "network_error"
      [] OTHER -> "error"

\* run_etl_batch lines 1006-1041: the attempt has returned
\* "if i < len(products) and not _shutdown_requested" before every
\* random_delay of the chain, lines 1016-1041 and 1136-1159
DelayDue_mut == ~shutdown_requested

DelayDue == idx < Len(products) /\ ~shutdown_requested

Account ==
    /\ pc = "returned"
    /\ IF result.status = "interrupted"
       THEN /\ stats' = [stats EXCEPT !.interrupted = TRUE]
            /\ pc' = "done"
            /\ ExitRun("cancelled", conn)
            /\ UNCHANGED <<idx, last_delay>>
       ELSE /\ stats' = [stats EXCEPT ![StatKey(result.status)] = @ + 1]
            /\ last_delay' = IF DelayDue THEN DelayFor(result.status) ELSE "none"
            /\ idx' = idx + 1
            /\ pc' = "loop"
            /\ StayInRun
    /\ att' = NoAtt
    /\ result' = NoResult
    /\ UNCHANGED <<now, envVars, dbVars, shutdown_requested, limit, days_threshold, force,
                   products, phase, sel, ldVars, sc, pg, drv, wr, signals, pr, etl>>

\* an exception left scrape_and_load_product_details: except Exception, line 1060
Abort ==
    /\ pc = "raised"
    /\ pc' = "aborted"
    /\ ExitRun("fault", conn)
    /\ UNCHANGED <<now, envVars, dbVars, shutdown_requested, limit, days_threshold, force,
                   products, idx, stats, result, last_delay,
                   phase, att, sel, ldVars, sc, pg, drv, wr, signals, pr, etl>>

\* ---------------------------------------------------- initial states
NoStats ==
    [total |-> 0, success |-> 0, skipped |-> 0, no_data |-> 0, server_errors |-> 0,
     network_errors |-> 0, other_errors |-> 0, interrupted |-> FALSE]

NoSel == [now |-> 0, last |-> [a \in Asins |-> NULL], clean |-> TRUE]

NoScroll == [pc |-> "idle"]

\* a catalog as earlier runs leave it: has_details and last_details_scrape are
\* set together by update_product_details_status
InitDb ==
    /\ has_details = [a \in Asins |-> last_details_scrape[a] # NULL]
    /\ has_price_history = [a \in Asins |-> FALSE]
    /\ details_rows = [a \in Asins |-> IF last_details_scrape[a] # NULL THEN 1 ELSE 0]
    /\ price_history = [a \in Asins |-> {}]
    /\ review_rows = [a \in Asins |-> IF a = "A" THEN [NoRows EXCEPT ![1] = 1] ELSE NoRows]

\* pages of the batch runs: A carries a full record or a rating alone, B is
\* blocked (every field N/A) or carries a brand alone
FullPage ==
    [price |-> "ok", rating |-> TRUE, brand |-> TRUE, total_reviews |-> TRUE,
     reviews |-> <<1, 2>>]
RatingPage == [FullPage EXCEPT !.price = "NA", !.brand = FALSE, !.reviews = <<>>]
BlockedPage ==
    [price |-> "NA", rating |-> FALSE, brand |-> FALSE, total_reviews |-> FALSE,
     reviews |-> <<>>]
BrandPage == [BlockedPage EXCEPT !.brand = TRUE]

InitIdleLoader == ld = NoCall /\ ld_calls = 0

NoPages == [pc |-> "idle"]

InitIdlePages == pg = NoPages

NoSession == [pc |-> "idle"]
NoRetry == [pc |-> "idle"]
NoPrices == [pc |-> "idle"]

NoEtl == [pc |-> "idle", products |-> <<>>, valid |-> <<>>, records |-> <<>>]

InitIdleAux ==
    /\ drv = NoSession
    /\ wr = NoRetry
    /\ signals = 0
    /\ conn = "none"
    /\ ret = "none"
    /\ etl = NoEtl
    /\ pr = NoPrices

\* run_etl_batch after lines 954-976
Init ==
    /\ now = StartNow
    /\ catalog = {"A", "B"}
    /\ latest_batch = {}
    /\ entry_point = "batch"
    /\ \E pa \in {FullPage, RatingPage}, pb \in {BlockedPage, BrandPage} :
          page = [a \in Asins |-> IF a = "A" THEN pa ELSE pb]
    /\ \E ta \in {NULL} \cup (0 .. StartNow), tb \in {NULL, StartNow} :
          last_details_scrape = [a \in Asins |-> IF a = "A" THEN ta
                                                 ELSE IF a = "B" THEN tb ELSE NULL]
    /\ InitDb
    /\ shutdown_requested = FALSE
    /\ handlers_installed = TRUE
    /\ pc = "start"
    /\ limit \in {NULL} \cup (1 .. MaxLimit)
    /\ days_threshold \in 0 .. MaxDaysThreshold
    /\ force = FALSE
    /\ products = <<>>
    /\ idx = 1
    /\ stats = NoStats
    /\ result = NoResult
    /\ last_delay = "none"
    /\ phase = [a \in Asins |-> "PENDING"]
    /\ att = NoAtt
    /\ sel = NoSel
    /\ InitIdleLoader
    /\ InitIdlePages
    /\ InitIdleAux
    /\ sc = NoScroll

Next ==
    \/ Tick
    \/ Signal
    \/ Connect
    \/ ConnectFails
    \/ FetchFails
    \/ LoopTop
    \/ Entry
    \/ Gate
    \/ GateRaises
    \/ ScrapeFaults
    \/ ScrapeRejected
    \/ ScrapeSaves
    \/ ScrapeSaveRaises
    \/ Account
    \/ Abort

Spec == Init /\ [][Next]_vars

\* run_etl_batch on a catalog of three: A was never scraped, its page carries a
\* full record with three reviews and one of them is stored; B was scraped
\* on the day the run is launched; C was never scraped; the pages of B and C
\* render with every field N/A
ThreeReviewPage == [FullPage EXCEPT !.reviews = <<1, 2, 3>>]

InitE2E ==
    /\ now = StartNow - 1
    /\ catalog = Asins
    /\ latest_batch = {}
    /\ entry_point = "batch"
    /\ page = [a \in Asins |-> IF a = "A" THEN ThreeReviewPage ELSE BlockedPage]
    /\ \E tb \in {t \in 0 .. now : DateOf(t) = DateOf(now)} :
          last_details_scrape = [a \in Asins |-> IF a = "B" THEN tb ELSE NULL]
    /\ InitDb
    /\ shutdown_requested = FALSE
    /\ handlers_installed = TRUE
    /\ pc = "start"
    /\ limit = NULL
    /\ days_threshold \in {0, MaxDaysThreshold}
    /\ force = FALSE
    /\ products = <<>>
    /\ idx = 1
    /\ stats = NoStats
    /\ result = NoResult
    /\ last_delay = "none"
    /\ phase = [a \in Asins |-> "PENDING"]
    /\ att = NoAtt
    /\ sel = NoSel
    /\ InitIdleLoader
    /\ InitIdlePages
    /\ InitIdleAux
    /\ sc = NoScroll

SpecE2E == InitE2E /\ [][Next]_vars

\* run_etl_batch with further signals: _signal_handler runs again while the
\* flag is already set (it sets the flag and prints, nothing else)
SecondSignal ==
    /\ pc \notin Terminal
    /\ handlers_installed
    /\ shutdown_requested
    /\ signals < MaxSignals
    /\ shutdown_requested' = TRUE
    /\ signals' = signals + 1
    /\ UNCHANGED <<drv, wr, pr, exitVars, etl>>
    /\ UNCHANGED <<now, envVars, dbVars, pc, limit, days_threshold, force, handlers_installed,
                   products, idx, stats, result, last_delay, phase, att, sel, ldVars, sc, pg>>

\* a catalog of two: A has a full page and was never scraped or was scraped
\* at the start of the day, B was never scraped and renders blocked
InitSignals ==
    /\ now = StartNow
    /\ catalog = {"A", "B"}
    /\ latest_batch = {}
    /\ entry_point = "batch"
    /\ page = [a \in Asins |-> IF a = "A" THEN FullPage ELSE BlockedPage]
    /\ \E ta \in {NULL, StartNow} :
          last_details_scrape = [a \in Asins |-> IF a = "A" THEN ta ELSE NULL]
    /\ InitDb
    /\ shutdown_requested = FALSE
    /\ handlers_installed = TRUE
    /\ pc = "start"
    /\ limit = NULL
    /\ days_threshold = 0
    /\ force = FALSE
    /\ products = <<>>
    /\ idx = 1
    /\ stats = NoStats
    /\ result = NoResult
    /\ last_delay = "none"
    /\ phase = [a \in Asins |-> "PENDING"]
    /\ att = NoAtt
    /\ sel = NoSel
    /\ InitIdleLoader
    /\ InitIdlePages
    /\ InitIdleAux
    /\ sc = NoScroll

NextSignals == Next \/ SecondSignal

SpecSignals == InitSignals /\ [][NextSignals]_vars

\* either entry point on a catalog of two: A has a full page and was never
\* scraped or was last scraped at any earlier time, B was never scraped and
\* renders blocked; the latest listing scrape names A or both
DefaultDaysThreshold == 1

InitEntry ==
    /\ now = StartNow
    /\ catalog = {"A", "B"}
    /\ latest_batch \in {{"A"}, {"A", "B"}}
    /\ entry_point \in {"batch", "top100"}
    /\ page = [a \in Asins |-> IF a = "A" THEN FullPage ELSE BlockedPage]
    /\ \E ta \in {NULL} \cup (0 .. StartNow) :
          last_details_scrape = [a \in Asins |-> IF a = "A" THEN ta ELSE NULL]
    /\ InitDb
    /\ shutdown_requested = FALSE
    /\ handlers_installed = TRUE
    /\ pc = "start"
    /\ limit = NULL
    /\ days_threshold \in (IF entry_point = "batch" THEN {0, DefaultDaysThreshold}
                                                    ELSE {DefaultDaysThreshold})
    /\ force = FALSE
    /\ products = <<>>
    /\ idx = 1
    /\ stats = NoStats
    /\ result = NoResult
    /\ last_delay = "none"
    /\ phase = [a \in Asins |-> "PENDING"]
    /\ att = NoAtt
    /\ sel = NoSel
    /\ InitIdleLoader
    /\ InitIdlePages
    /\ InitIdleAux
    /\ sc = NoScroll

SpecEntry == InitEntry /\ [][Next]_vars

\* one call of scrape_and_load_product_details(asin, url, conn, headless, force)
\* for any page, any catalog status and any force, with or without the signal
\* handler installed by the caller; the global flag may be left set by an
\* earlier batch run when no handler is installed
InitAttempt ==
    /\ now = StartNow
    /\ catalog = {"A"}
    /\ latest_batch = {}
    /\ entry_point = "batch"
    /\ \E pa \in DetailsRecords : page = [a \in Asins |-> IF a = "A" THEN pa ELSE BlockedPage]
    /\ \E ta \in {NULL} \cup (0 .. StartNow) :
          last_details_scrape = [a \in Asins |-> IF a = "A" THEN ta ELSE NULL]
    /\ InitDb
    /\ handlers_installed \in BOOLEAN
    /\ shutdown_requested \in (IF handlers_installed THEN {FALSE} ELSE BOOLEAN)
    /\ pc = "entry"
    /\ limit = NULL
    /\ days_threshold = 1
    /\ force \in BOOLEAN
    /\ products = <<"A">>
    /\ idx = 1
    /\ stats = NoStats
    /\ result = NoResult
    /\ last_delay = "none"
    /\ phase = [a \in Asins |-> "PENDING"]
    /\ att = NoAtt
    /\ sel = NoSel
    /\ InitIdleLoader
    /\ InitIdlePages
    /\ InitIdleAux
    /\ sc = NoScroll

NextAttempt ==
    \/ Tick
    \/ Signal
    \/ Entry
    \/ Gate
    \/ GateRaises
    \/ ScrapeFaults
    \/ ScrapeRejected
    \/ ScrapeSaves
    \/ ScrapeSaveRaises
    \/ ScrapeInterruptedEarly
    \/ ScrapeInterruptedLate
    \/ ScrapeInterruptedInSave

SpecAttempt == InitAttempt /\ [][NextAttempt]_vars

\* ------------------------------------------- the review loader on its own
InitIdleRun ==
    /\ shutdown_requested = FALSE
    /\ handlers_installed = FALSE
    /\ pc = "idle"
    /\ limit = NULL
    /\ days_threshold = 1
    /\ force = FALSE
    /\ products = <<>>
    /\ idx = 1
    /\ stats = NoStats
    /\ result = NoResult
    /\ last_delay = "none"
    /\ phase = [a \in Asins |-> "PENDING"]
    /\ att = NoAtt
    /\ sel = NoSel

InitIdleDb ==
    /\ now = StartNow
    /\ catalog = {"A", "B"}
    /\ latest_batch = {}
    /\ entry_point = "batch"
    /\ page = [a \in Asins |-> BlockedPage]
    /\ last_details_scrape = [a \in Asins |-> NULL]
    /\ has_details = [a \in Asins |-> FALSE]
    /\ has_price_history = [a \in Asins |-> FALSE]
    /\ details_rows = [a \in Asins |-> 0]
    /\ price_history = [a \in Asins |-> {}]

\* raw.reviews holds any set of reviews of A, each once (the conflict target
\* (asin, review_id) is a unique key), and one review of B
InitLoader ==
    /\ InitIdleDb
    /\ InitIdleRun
    /\ \E rows_a \in [ReviewIds -> {0, 1}] :
          review_rows = [a \in Asins |-> IF a = "A" THEN rows_a
                                        ELSE IF a = "B" THEN [NoRows EXCEPT ![1] = 1]
                                        ELSE NoRows]
    /\ InitIdleLoader
    /\ InitIdlePages
    /\ InitIdleAux
    /\ sc = NoScroll

\* the lists a call is made with: any list for the first call on the store,
\* the same list again for the calls after it (the page is scraped again)
LoaderIncoming ==
    IF ld_calls = 0 THEN SeqsUpTo(ReviewIds, MaxIncoming) ELSE {ld.incoming}

\* insert_reviews_incremental(conn, a, incoming) returns
LoaderCall ==
    /\ ld_calls < MaxLoaderCalls
    /\ \E incoming \in LoaderIncoming :
       \E oks \in WriteOutcomes(review_rows["A"], incoming) :
          LET r == insert_reviews_incremental(review_rows["A"], incoming, oks)
          IN  /\ review_rows' = [review_rows EXCEPT !["A"] = r.rows]
              /\ ld' = [asin |-> "A", incoming |-> incoming, before |-> review_rows["A"],
                        oks |-> oks, raised |-> FALSE, inserted |-> r.inserted,
                        skipped |-> r.skipped, attempted |-> r.attempted,
                        repeat |-> ld_calls > 0 /\ ~ld.raised /\ ld.incoming = incoming,
                        prev_clean |-> ~ld.raised /\ \A k \in 1 .. Len(ld.oks) : ld.oks[k]]
    /\ ld_calls' = ld_calls + 1
    /\ UNCHANGED <<now, envVars, has_details, last_details_scrape, has_price_history,
                   details_rows, price_history, runVars, sc, pg, auxVars>>

\* the query of get_existing_review_ids raises: the call raises, nothing is written
LoaderCallRaises ==
    /\ ld_calls < MaxLoaderCalls
    /\ \E incoming \in LoaderIncoming :
          /\ incoming # <<>>
          /\ ld' = [NoCall EXCEPT !.incoming = incoming, !.before = review_rows["A"],
                                  !.raised = TRUE]
    /\ ld_calls' = ld_calls + 1
    /\ UNCHANGED <<now, envVars, dbVars, runVars, sc, pg, auxVars>>

NextLoader == LoaderCall \/ LoaderCallRaises

SpecLoader == InitLoader /\ [][NextLoader]_vars

\* ------------------------------------------------ scroll_until_all_loaded
\* sc: the configuration (step, max), the locals of the loop (last_count,
\* no_change_count, scroll_position) and the page (height, items).  Positions
\* above every page height compare alike, so scroll_position saturates at MaxPos
MaxPos == MaxHeight + MaxStep
Heights == 1 .. MaxHeight
Counts == 0 .. MaxCount

\* _update_scroll_position(current_position, old_height) with the new height
update_scroll_position_mut(current_position, old_height, new_height) ==
    current_position

update_scroll_position(current_position, old_height, new_height) ==
    IF new_height > old_height THEN old_height ELSE current_position

\* _scroll_down(current_position)
scroll_down(current_position, step) == Min(current_position + step, MaxPos)

\* lines 229-231 (listing: position 0) and 173-175 (reviews: window.pageYOffset
\* after the scroll to the reviews section)
InitScroll ==
    /\ InitIdleDb
    /\ InitIdleRun
    /\ review_rows = [a \in Asins |-> NoRows]
    /\ InitIdleLoader
    /\ InitIdlePages
    /\ InitIdleAux
    /\ \E hd \in {"listing", "review"}, st \in 1 .. MaxStep, mx \in 1 .. MaxAttemptsCfg,
          h \in Heights, c \in Counts, p0 \in 0 .. MaxHeight :
          /\ hd = "listing" => p0 = 0
          /\ p0 <= h
          /\ sc = [pc |-> "loop", handler |-> hd, step |-> st, max |-> mx,
                   last_count |-> 0, no_change_count |-> 0, scroll_position |-> p0,
                   height |-> h, items |-> c, feed0 |-> <<>>, obs |-> 0,
                   clamped |-> FALSE]

\* the pass reaches the bottom of the page: "if scroll_position >= page_height"
AtBottom(s) == scroll_down(s.scroll_position, s.step) >= s.height

\* the body of the while loop on the locals s; h and c are the page height and
\* the item count after the scroll and the waits of this pass.  clamped: the
\* pass observed the count and found the page grown
ScrollPass_mut(s, h, c) ==
    [s EXCEPT !.no_change_count = IF AtBottom(s) THEN @ + 1 ELSE @,
              !.last_count = IF AtBottom(s) THEN c ELSE @,
              !.scroll_position = scroll_down(s.scroll_position, s.step),
              !.height = h,
              !.items = c,
              !.clamped = FALSE]

ScrollPass(s, h, c) ==
    LET page_height == s.height
        pos == scroll_down(s.scroll_position, s.step)
    IN  IF pos >= page_height
        THEN [s EXCEPT
                !.no_change_count = IF c = s.last_count THEN @ + 1 ELSE 0,
                !.last_count = c,
                !.scroll_position = update_scroll_position(pos, page_height, h),
                !.height = h,
                !.items = c,
                !.clamped = h > page_height]
        ELSE [s EXCEPT !.scroll_position = pos, !.height = h, !.items = c,
                       !.clamped = FALSE]

\* one pass of the while loop on a page that may show any height and any count
ScrollIteration ==
    /\ sc.pc = "loop"
    /\ sc.no_change_count < sc.max
    /\ \E h \in Heights, c \in Counts : sc' = ScrollPass(sc, h, c)
    /\ UNCHANGED <<now, envVars, dbVars, runVars, ldVars, pg, auxVars>>

\* the loop condition fails: return last_count
ScrollReturn ==
    /\ sc.pc = "loop"
    /\ sc.no_change_count >= sc.max
    /\ sc' = [sc EXCEPT !.pc = "done"]
    /\ UNCHANGED <<now, envVars, dbVars, runVars, ldVars, pg, auxVars>>

\* a driver call of the pass (execute_script, page_source) raises: nothing in
\* scroll_until_all_loaded catches it
ScrollRaises ==
    /\ sc.pc = "loop"
    /\ sc.no_change_count < sc.max
    /\ sc' = [sc EXCEPT !.pc = "raised"]
    /\ UNCHANGED <<now, envVars, dbVars, runVars, ldVars, pg, auxVars>>

NextScroll == ScrollIteration \/ ScrollReturn \/ ScrollRaises

SpecScroll == InitScroll /\ [][NextScroll]_vars

\* the loop is sequential code: as long as its driver calls return, the next
\* pass is taken
SpecScrollFair ==
    InitScroll /\ [][NextScroll]_vars /\ WF_vars(ScrollIteration \/ ScrollReturn)

\* ------------------------------- the scroll loop on injected item counts
\* the count reads of the loop are served from the list feed0, one element per
\* observation; obs counts the observations made.  A read past the end of the
\* list raises in the injected source
FeedCounts == 0 .. MaxFeedCount

InitInjected ==
    /\ InitIdleDb
    /\ InitIdleRun
    /\ review_rows = [a \in Asins |-> NoRows]
    /\ InitIdleLoader
    /\ InitIdlePages
    /\ InitIdleAux
    /\ \E st \in 1 .. MaxStep, mx \in 1 .. MaxAttemptsCfg, h \in Heights,
          f \in SeqsUpTo(FeedCounts, MaxFeed) :
          sc = [pc |-> "loop", handler |-> "listing", step |-> st, max |-> mx,
                last_count |-> 0, no_change_count |-> 0, scroll_position |-> 0,
                height |-> h, items |-> 0, feed0 |-> f, obs |-> 0,
                clamped |-> FALSE]

\* a pass of the while loop that takes its count, if it reads one, from the list
InjectedIteration ==
    /\ sc.pc = "loop"
    /\ sc.no_change_count < sc.max
    /\ AtBottom(sc) => sc.obs < Len(sc.feed0)
    /\ \E h \in Heights :
          sc' = IF AtBottom(sc)
                THEN [ScrollPass(sc, h, sc.feed0[sc.obs + 1]) EXCEPT !.obs = @ + 1]
                ELSE ScrollPass(sc, h, sc.items)
    /\ UNCHANGED <<now, envVars, dbVars, runVars, ldVars, pg, auxVars>>

\* the pass reads a count and the list has none left
InjectedExhausted ==
    /\ sc.pc = "loop"
    /\ sc.no_change_count < sc.max
    /\ AtBottom(sc)
    /\ sc.obs >= Len(sc.feed0)
    /\ sc' = [sc EXCEPT !.pc = "raised", !.obs = @ + 1]
    /\ UNCHANGED <<now, envVars, dbVars, runVars, ldVars, pg, auxVars>>

NextInjected == InjectedIteration \/ InjectedExhausted \/ ScrollReturn

SpecInjected == InitInjected /\ [][NextInjected]_vars

\* ------------------------------------------- the listing scraper's pages
\* the listing: n pages; counts[i] products parse on page i; links[i] is the page
\* the next-page link of page i leads to, 0 when page i has no such link
NoLink == 0

Listings ==
    UNION {[n : {n}, counts : [1 .. n -> 0 .. MaxPerPage], links : [1 .. n -> 0 .. n]]
           : n \in 1 .. MaxPages}

\* the walk is followed for at most MaxTrail pages
MaxTrail == MaxPages + 1

\* ScrapingResult.add_products: self.products.extend(new_products)
add_products_mut(total_products, c) == c

add_products(total_products, c) == total_products + c

\* pg: the listing, the page the driver is on (at), the locals and the result of
\* _scrape_all_pages, and the pages parsed so far in order (trail)
InitPages ==
    /\ InitIdleDb
    /\ InitIdleRun
    /\ review_rows = [a \in Asins |-> NoRows]
    /\ InitIdleLoader
    /\ InitIdleAux
    /\ sc = NoScroll
    /\ \E l \in Listings :
          pg = [pc |-> "page", listing |-> l, at |-> 1, current_page |-> 1,
                total_products |-> 0, pages_processed |-> 0, trail |-> <<>>]

\* one pass of "while True": scroll, parse, add the products, set
\* pages_processed, then follow the next-page link or break
PageProcess ==
    /\ pg.pc = "page"
    /\ Len(pg.trail) < MaxTrail
    /\ LET l == pg.listing
           next_url == l.links[pg.at]
           done == [pg EXCEPT !.total_products = add_products(@, l.counts[pg.at]),
                              !.pages_processed = pg.current_page,
                              !.trail = Append(@, pg.at)]
       IN  pg' = IF next_url # NoLink
                 THEN [done EXCEPT !.current_page = @ + 1, !.at = next_url]
                 ELSE [done EXCEPT !.pc = "done"]
    /\ UNCHANGED <<now, envVars, dbVars, runVars, ldVars, sc, auxVars>>

\* the scroll or a driver call of the pass raises: run() only has a finally
PageRaises ==
    /\ pg.pc = "page"
    /\ Len(pg.trail) < MaxTrail
    /\ pg' = [pg EXCEPT !.pc = "raised"]
    /\ UNCHANGED <<now, envVars, dbVars, runVars, ldVars, sc, auxVars>>

NextPages == PageProcess \/ PageRaises

SpecPages == InitPages /\ [][NextPages]_vars

\* ------------------------------------------------------- render sessions
\* ProductPageScraper.scrape and AmazonBestSellersScraper.run: one scraper
\* object per call.  drv.driver: self.driver is set; drv.open: the browser
\* sessions that are open; drv.fault: an exception is on its way out of the
\* try block; drv.log: how the earlier calls ended
StepAfter(p) ==
    IF p = "init" THEN "navigate"
    ELSE IF p = "navigate" THEN "scroll"
    ELSE IF p = "scroll" THEN "extract"
    ELSE "cleanup"

\* "finally: self._cleanup()" runs whether or not the try block raised
CleanupRuns_mut(faulted) == ~faulted

CleanupRuns(faulted) == TRUE

\* _cleanup: "if self.driver: self.driver.quit()"
cleanup(d) == IF d.driver THEN [d EXCEPT !.open = @ - 1] ELSE d

EndOf(d) == IF ~d.fault THEN "ok" ELSE IF d.driver THEN "fault_open" ELSE "fault_closed"

Returned(d) == [d EXCEPT !.pc = "returned", !.log = Append(@, EndOf(d))]

InitSession ==
    /\ InitIdleDb
    /\ InitIdleRun
    /\ review_rows = [a \in Asins |-> NoRows]
    /\ InitIdleLoader
    /\ InitIdlePages
    /\ sc = NoScroll
    /\ wr = NoRetry
    /\ signals = 0
    /\ conn = "none"
    /\ ret = "none"
    /\ etl = NoEtl
    /\ pr = NoPrices
    /\ drv = [pc |-> "idle", kind |-> "product", driver |-> FALSE, open |-> 0,
              fault |-> FALSE, log |-> <<>>]

\* the caller builds a scraper (self.driver = None) and calls scrape / run
ScraperNew ==
    /\ drv.pc \in {"idle", "returned"}
    /\ Len(drv.log) < MaxSessions
    /\ \E k \in {"product", "listing"} :
          drv' = [drv EXCEPT !.pc = "init", !.kind = k, !.driver = FALSE, !.fault = FALSE]
    /\ UNCHANGED <<now, envVars, dbVars, runVars, ldVars, sc, pg, wr, signals, pr, exitVars, etl>>

\* _initialize_driver: ChromeDriverFactory.create returns a session
InitializeDriver ==
    /\ drv.pc = "init"
    /\ drv' = [drv EXCEPT !.pc = StepAfter("init"), !.driver = TRUE, !.open = @ + 1]
    /\ UNCHANGED <<now, envVars, dbVars, runVars, ldVars, sc, pg, wr, signals, pr, exitVars, etl>>

\* _navigate_to_page, the scroll handler, _extract_details (for the listing:
\* _navigate_to_start_page and _scrape_all_pages) go through
SessionStep ==
    /\ drv.pc \in {"navigate", "scroll", "extract"}
    /\ drv' = [drv EXCEPT !.pc = StepAfter(drv.pc)]
    /\ UNCHANGED <<now, envVars, dbVars, runVars, ldVars, sc, pg, wr, signals, pr, exitVars, etl>>

\* a step of the try block raises (the factory included: no session then)
SessionFaults ==
    /\ drv.pc \in {"init", "navigate", "scroll", "extract"}
    /\ LET d == [drv EXCEPT !.fault = TRUE]
       IN  drv' = IF CleanupRuns(TRUE) THEN [d EXCEPT !.pc = "cleanup"] ELSE Returned(d)
    /\ UNCHANGED <<now, envVars, dbVars, runVars, ldVars, sc, pg, wr, signals, pr, exitVars, etl>>

\* the finally block, then the call returns or the exception goes on
SessionCleanup ==
    /\ drv.pc = "cleanup"
    /\ drv' = Returned(cleanup(drv))
    /\ UNCHANGED <<now, envVars, dbVars, runVars, ldVars, sc, pg, wr, signals, pr, exitVars, etl>>

NextSession ==
    \/ ScraperNew
    \/ InitializeDriver
    \/ SessionStep
    \/ SessionFaults
    \/ SessionCleanup

SpecSession == InitSession /\ [][NextSession]_vars

\* ------------------------------------------------- price history on its own
\* insert_price_history(conn, asin, price) called on its own.  pr.rows: the
\* rows of raw.price_history per (asin, price_date), each row its price;
\* pr.has: core.products.has_price_history; pr.latest: per (asin, day) the
\* price of the most recent call that committed, NULL when none did; pr.over:
\* the last call committed over a row of that day holding another price
Days == 0 .. DateOf(MaxNow)
Prices == 1 .. MaxPrice

\* INSERT ... VALUES (asin, CURRENT_DATE, price) ON CONFLICT (asin, price_date)
\* DO UPDATE SET price = EXCLUDED.price, on the rows of one (asin, day)
UpsertPrice_mut(rows, price) == Append(rows, price)

UpsertPrice(rows, price) ==
    IF rows = <<>> THEN <<price>> ELSE [k \in DOMAIN rows |-> price]

\* the transaction of insert_price_history: both statements, then commit; an
\* exception at a statement or at the commit ends in conn.rollback().
\* fail: "none", or the place that raises
PriceFailures == {"none", "insert", "update", "commit"}

insert_price_history(store, a, day, price, fail) ==
    IF price = NULL
    THEN [rows |-> store.rows, has |-> store.has, ret |-> FALSE]
    ELSE LET rows1 == [store.rows EXCEPT ![a][day] = UpsertPrice(@, price)]
             has1 == [store.has EXCEPT ![a] = TRUE]
         IN  IF fail = "none"
             THEN [rows |-> rows1, has |-> has1, ret |-> TRUE]
             ELSE [rows |-> store.rows, has |-> store.has, ret |-> FALSE]

InitPrice ==
    /\ InitIdleRun
    /\ now = StartNow - 1
    /\ catalog = {"A", "B"}
    /\ latest_batch = {}
    /\ entry_point = "batch"
    /\ page = [a \in Asins |-> BlockedPage]
    /\ last_details_scrape = [a \in Asins |-> NULL]
    /\ has_details = [a \in Asins |-> FALSE]
    /\ has_price_history = [a \in Asins |-> FALSE]
    /\ details_rows = [a \in Asins |-> 0]
    /\ price_history = [a \in Asins |-> {}]
    /\ review_rows = [a \in Asins |-> NoRows]
    /\ InitIdleLoader
    /\ InitIdlePages
    /\ sc = NoScroll
    /\ drv = NoSession
    /\ wr = NoRetry
    /\ signals = 0
    /\ conn = "none"
    /\ ret = "none"
    /\ etl = NoEtl
    /\ pr = [pc |-> "ready",
             rows |-> [a \in Asins |-> [d \in Days |-> <<>>]],
             has |-> [a \in Asins |-> FALSE],
             latest |-> [a \in Asins |-> [d \in Days |-> NULL]],
             calls |-> 0,
             ret |-> FALSE,
             over |-> FALSE]

PriceTick ==
    /\ pr.pc = "ready"
    /\ now < MaxNow
    /\ now' = now + 1
    /\ UNCHANGED <<envVars, dbVars, runVars, ldVars, sc, pg, auxVars>>

PriceCall ==
    /\ pr.pc = "ready"
    /\ pr.calls < MaxPriceCalls
    /\ \E a \in catalog, price \in Prices \cup {NULL}, fail \in PriceFailures :
          LET day == DateOf(now)
              w == insert_price_history(pr, a, day, price, fail)
          IN  pr' = [pr EXCEPT !.rows = w.rows,
                               !.has = w.has,
                               !.ret = w.ret,
                               !.calls = @ + 1,
                               !.over = w.ret /\ pr.latest[a][day] \notin {NULL, price},
                               !.latest = IF w.ret THEN [@ EXCEPT ![a][day] = price]
                                          ELSE @]
    /\ UNCHANGED <<now, envVars, dbVars, runVars, ldVars, sc, pg, drv, wr, signals, exitVars, etl>>

NextPrice == PriceTick \/ PriceCall

SpecPrice == InitPrice /\ [][NextPrice]_vars

\* ------------------------------------------------------- the retry loop
\* load_details.py: "while retries < max_retries" around run_etl_batch.
\* wr.runs: calls of run_etl_batch made; wr.stats: the report of the last one
max_retries == 5

\* the reports a call of run_etl_batch may return, as far as the loop reads
\* them and the claims tell them apart
Reports ==
    [success : 0 .. MaxErrors, no_data : 0 .. MaxErrors, server_errors : 0 .. MaxErrors,
     network_errors : 0 .. MaxErrors, other_errors : 0 .. MaxErrors,
     interrupted : BOOLEAN]

NoReport ==
    [success |-> 0, no_data |-> 0, server_errors |-> 0, network_errors |-> 0,
     other_errors |-> 0, interrupted |-> FALSE]

\* errores = stats['server_errors'] + stats['network_errors'] + stats['other_errors']
errores(stats_) ==
    stats_.server_errors + stats_.network_errors + stats_.other_errors

InitRetry ==
    /\ InitIdleDb
    /\ InitIdleRun
    /\ review_rows = [a \in Asins |-> NoRows]
    /\ InitIdleLoader
    /\ InitIdlePages
    /\ sc = NoScroll
    /\ drv = NoSession
    /\ signals = 0
    /\ conn = "none"
    /\ ret = "none"
    /\ etl = NoEtl
    /\ pr = NoPrices
    /\ wr = [pc |-> "while", retries |-> 0, runs |-> 0, stats |-> NoReport]

\* one pass of the loop body: run the batch, break when errores == 0, else
\* count the retry
RetryPass ==
    /\ wr.pc = "while"
    /\ wr.retries < max_retries
    /\ \E st \in Reports :
          wr' = [wr EXCEPT !.runs = @ + 1,
                           !.stats = st,
                           !.retries = IF errores(st) = 0 THEN @ ELSE @ + 1,
                           !.pc = IF errores(st) = 0 THEN "end" ELSE "while"]
    /\ UNCHANGED <<now, envVars, dbVars, runVars, ldVars, sc, pg, drv, signals, pr, exitVars, etl>>

\* the loop condition fails
RetryExhausted ==
    /\ wr.pc = "while"
    /\ wr.retries >= max_retries
    /\ wr' = [wr EXCEPT !.pc = "end"]
    /\ UNCHANGED <<now, envVars, dbVars, runVars, ldVars, sc, pg, drv, signals, pr, exitVars, etl>>

NextRetry == RetryPass \/ RetryExhausted

SpecRetry == InitRetry /\ [][NextRetry]_vars

\* ------------------------------------------------ the listing ETL
\* a scraped Product: its asin and name, "N/A" or empty when the card of the
\* listing did not yield them
ListingAsins == {"A", "B", "N/A", ""}
ListingNames == {"n", "N/A"}
ListingProducts == [asin : ListingAsins, name : ListingNames]

Missing(x) == x = "" \/ x = "N/A"

\* BestSellersETL._filter_valid_products
filter_valid_products(ps) ==
    SelectSeq(ps, LAMBDA p : ~Missing(p.asin) /\ ~Missing(p.name))

\* the records BestSellersLoader.load_products builds: rank_position is
\* index + 1 of enumerate(products), products without asin are left out
load_products(ps) ==
    LET indexed == [k \in 1 .. Len(ps) |->
                       [asin |-> ps[k].asin, product_name |-> ps[k].name,
                        rank_position |-> k]]
    IN  SelectSeq(indexed, LAMBDA r : ~Missing(r.asin))

\* scraper.run() has returned the listing, in the order of the pages
InitListing ==
    /\ InitIdleDb
    /\ InitIdleRun
    /\ review_rows = [a \in Asins |-> NoRows]
    /\ InitIdleLoader
    /\ InitIdlePages
    /\ sc = NoScroll
    /\ drv = NoSession
    /\ wr = NoRetry
    /\ signals = 0
    /\ pr = NoPrices
    /\ conn = "none"
    /\ ret = "none"
    /\ \E ps \in SeqsUpTo(ListingProducts, MaxListing) :
          etl = [pc |-> "scraped", products |-> ps, valid |-> <<>>, records |-> <<>>]

\* FASE 2: valid_products = self._filter_valid_products(result.products)
EtlTransform ==
    /\ etl.pc = "scraped"
    /\ etl' = [etl EXCEPT !.pc = "filtered", !.valid = filter_valid_products(etl.products)]
    /\ UNCHANGED <<now, envVars, dbVars, runVars, ldVars, sc, pg, drv, wr, signals, pr, exitVars>>

\* FASE 3: self.loader.load_products(products=valid_products, ...) commits
EtlLoad ==
    /\ etl.pc = "filtered"
    /\ etl' = [etl EXCEPT !.pc = "loaded", !.records = load_products(etl.valid)]
    /\ UNCHANGED <<now, envVars, dbVars, runVars, ldVars, sc, pg, drv, wr, signals, pr, exitVars>>

\* execute_batch raises psycopg2.Error: rollback, nothing is stored, the ETL raises
EtlLoadFails ==
    /\ etl.pc = "filtered"
    /\ load_products(etl.valid) # <<>>
    /\ etl' = [etl EXCEPT !.pc = "failed"]
    /\ UNCHANGED <<now, envVars, dbVars, runVars, ldVars, sc, pg, drv, wr, signals, pr, exitVars>>

NextListing == EtlTransform \/ EtlLoad \/ EtlLoadFails

SpecListing == InitListing /\ [][NextListing]_vars

\* ================================================================ claims
Attempted(a) == phase[a] \in {"ATTEMPTING", "ATTEMPTED"}

\* the eligibility rule of the catalog, on the timestamps the work list was
\* fetched from: never scraped, or last scraped more than d days before
Eligible(a, d) ==
    \/ sel.last[a] = NULL
    \/ sel.last[a] < sel.now - TicksPerDay * d

\* C1: once the cancellation flag is set, no item that has not yet passed the
\* cancellation check on entry of its attempt leaves PENDING (no gate check,
\* render or write starts for it); an item whose attempt is under way when the
\* flag is set and which ends as success has run every step of the save path:
\* primary record, price point when the price is usable, review delta when
\* reviews were extracted, and the status mark.
C1_Cancellation ==
    [][/\ shutdown_requested =>
             \A a \in Asins : phase[a] = "PENDING" => phase'[a] = "PENDING"
       /\ (pc = "scrape" /\ shutdown_requested /\ pc' = "returned"
             /\ result'.status = "success") =>
             /\ att'.flag_seen
             /\ {"details", "status"} \subseteq att'.writes
             /\ PriceUsable(page[CurAsin]) => "price" \in att'.writes
             /\ page[CurAsin].reviews # <<>> => "reviews" \in att'.writes]_vars

\* C1 witness: the flag was set during an attempt that ended as success with the
\* status mark committed, while a later item of the list is still PENDING
C1_Witness ==
    /\ pc = "returned"
    /\ att.flag_seen
    /\ result.status = "success"
    /\ {"details", "price", "reviews", "status"} \subseteq att.committed
    /\ idx < Len(products)
    /\ phase[products[idx + 1]] = "PENDING"

\* C2 as claimed: an attempt that returns neither success nor skipped attempted
\* no write and left the catalog status as it was
C2_Original ==
    (pc = "returned" /\ result.status \notin {"success", "skipped"}) =>
        /\ att.writes = {}
        /\ has_details[CurAsin] = att.pre_has
        /\ last_details_scrape[CurAsin] = att.pre_last

\* C2 amended: an attempt that returns neither success nor skipped, and that
\* no KeyboardInterrupt cut short, left the catalog status (has_details,
\* last_details_scrape) as it was; an attempt cut short by a KeyboardInterrupt
\* left it as it was unless the status mark had committed before the interrupt;
\* and an attempt made no write when the record it extracted, if any, had
\* neither price nor rating (the outcome was then decided before the save path)
C2_NoStatusChange ==
    (pc = "returned" /\ result.status \notin {"success", "skipped"}) =>
        /\ (att.fault # Interrupt \/ "status" \notin att.committed) =>
              /\ has_details[CurAsin] = att.pre_has
              /\ last_details_scrape[CurAsin] = att.pre_last
        /\ (page[CurAsin].price = "NA" /\ ~page[CurAsin].rating) => att.writes = {}
        /\ ~att.rendered => att.writes = {}

\* C2 witness: a record without price and rating was scraped and rejected
C2_Witness ==
    /\ pc = "returned"
    /\ att.rendered
    /\ att.flag_seen
    /\ result.status \in {"no_data", "server_error"}
    /\ page[CurAsin].price = "NA" /\ ~page[CurAsin].rating
    /\ att.pre_last # NULL

\* C3 as claimed: at the end of the save path the status mark is issued iff at
\* least one of the three writes (primary record, price point, review insert)
\* committed, and the outcome is no_data exactly when none committed
C3_MarkIffCommitted ==
    (pc = "returned" /\ att.valid /\ result.status \in {"success", "no_data"}) =>
        /\ ("status" \in att.writes) <=>
              (att.committed \cap {"details", "price", "reviews"} # {})
        /\ (result.status = "no_data") <=>
              (att.committed \cap {"details", "price", "reviews"} = {})

\* C4 as claimed: a batch run is aborted only by a failure at batch start, before
\* any item was taken up; no fault leaves the attempt of an item
C4_FaultIsolation ==
    /\ pc # "raised"
    /\ pc = "aborted" => (products = <<>> /\ \A a \in Asins : phase[a] = "PENDING")

\* C5: whenever the gate answers, an item last scraped today is skipped without
\* a render session and without a write unless force is set; with force set, or
\* when the item was not scraped today, the attempt goes on to scraping
C5_Gating ==
    [][(pc = "gate" /\ pc' \notin {"gate", "raised"}) =>
          IF was_updated_today(CurAsin) /\ ~force
          THEN /\ pc' = "returned"
               /\ result'.status = "skipped"
               /\ ~att'.rendered
               /\ att'.writes = {}
               /\ dbVars' = dbVars
          ELSE pc' = "scrape"]_vars

\* C5 witness: an item last scraped today is being scraped because force is set
C5_Witness ==
    /\ pc = "scrape"
    /\ force
    /\ last_details_scrape[CurAsin] # NULL
    /\ DateOf(last_details_scrape[CurAsin]) = DateOf(now)

\* C6 as claimed: in a batch run that works through its whole list (no limit, no
\* cancellation, no abort) an item is attempted iff it is eligible, for every
\* threshold d
C6_Original ==
    (pc = "done" /\ ~stats.interrupted /\ limit = NULL) =>
        \A a \in catalog : Attempted(a) <=> (Eligible(a, days_threshold) \/ force)

\* C6 amended: in every batch run only eligible items are attempted; in a run
\* with d >= 1 that works through its whole list (no limit, no cancellation, no
\* abort) every eligible item is attempted; an item is skipped by the gate only
\* when d = 0, where an item scraped earlier the same day is selected and then
\* skipped
C6_Eligibility ==
    /\ \A a \in catalog : phase[a] # "PENDING" => Eligible(a, days_threshold)
    /\ (pc = "done" /\ ~stats.interrupted /\ limit = NULL /\ days_threshold >= 1) =>
          \A a \in catalog : Attempted(a) <=> Eligible(a, days_threshold)
    /\ \A a \in catalog : phase[a] = "GATED" => days_threshold = 0

\* C6 witness: a finished run with d = 2 that attempted an item last scraped more
\* than two days before and left an item scraped today alone
C6_Witness ==
    /\ pc = "done"
    /\ ~stats.interrupted
    /\ limit = NULL
    /\ days_threshold = 2
    /\ \E a \in catalog : Attempted(a) /\ sel.last[a] # NULL
    /\ \E a \in catalog : phase[a] = "PENDING"

\* the reviews of a loader call that were not stored before it, in list order
LdNew == SelectSeq(ld.incoming, LAMBDA r : ld.before[r] = 0)
LdFailed == Len(ld.oks) - CountTrue(ld.oks)
LdAdded == StoredKeys(review_rows[ld.asin]) \ StoredKeys(ld.before)
LdReturned == ld_calls > 0 /\ ~ld.raised

\* C7 as claimed: inserted + skipped = len(incoming) and the keys newly
\* persisted are the keys of incoming minus the stored keys
C7_Original ==
    LdReturned =>
        /\ ld.inserted + ld.skipped = Len(ld.incoming)
        /\ LdAdded = Keys(ld.incoming) \ StoredKeys(ld.before)

\* C7 amended: inserted + skipped + (writes that failed) = len(incoming), skipped
\* counts the incoming reviews whose key was stored, and the keys newly persisted
\* are the keys of incoming, minus the stored keys, of which a write committed;
\* so when no write fails the counts add up to len(incoming) and the new keys
\* are exactly incoming minus stored
C7_DeltaCorrect ==
    LdReturned =>
        /\ ld.inserted + ld.skipped + LdFailed = Len(ld.incoming)
        /\ ld.skipped = Cardinality({k \in 1 .. Len(ld.incoming) : ld.before[ld.incoming[k]] > 0})
        /\ LdAdded = {LdNew[k] : k \in {j \in 1 .. Len(LdNew) : ld.oks[j]}}
        /\ LdFailed = 0 =>
              /\ ld.inserted + ld.skipped = Len(ld.incoming)
              /\ LdAdded = Keys(ld.incoming) \ StoredKeys(ld.before)

\* C7 witness: one key stored, three incoming of which one is known: 2 and 1
C7_Witness ==
    /\ LdReturned
    /\ StoredKeys(ld.before) = {1}
    /\ ld.incoming = <<1, 2, 3>>
    /\ ld.inserted = 2
    /\ ld.skipped = 1

Unique == \A a \in Asins, r \in ReviewIds : review_rows[a][r] <= 1

C9_ElementIsolation ==
    LdReturned =>
        /\ ld.attempted = Len(LdNew)
        /\ ld.inserted = CountTrue(ld.oks)
        /\ ld.inserted + ld.skipped = Len(ld.incoming) - LdFailed
        /\ \A k \in 1 .. Len(LdNew) : ld.oks[k] => review_rows[ld.asin][LdNew[k]] = 1
        /\ review_rows["B"] = [NoRows EXCEPT ![1] = 1]

\* C9 witness: the first write of a call failed and the two after it committed
C9_Witness ==
    /\ LdReturned
    /\ ld.incoming = <<1, 2, 3>>
    /\ ld.oks = <<FALSE, TRUE, TRUE>>
    /\ ld.inserted = 2
    /\ ld.skipped = 0
    /\ StoredKeys(review_rows["A"]) = {2, 3}

\* C10 as claimed: scroll_until_all_loaded terminates for every page behaviour
C10_Terminates == <>(sc.pc \in {"done", "raised"})

\* the counts observed so far and the number of observations at the end of them
\* that found the count unchanged (the first one is compared with 0)
Observed == SubSeq(sc.feed0, 1, Min(sc.obs, Len(sc.feed0)))
Unchanged(s, k) == s[k] = (IF k = 1 THEN 0 ELSE s[k - 1])
NoChangeRun(s) ==
    Cardinality({k \in 1 .. Len(s) : \A j \in k .. Len(s) : Unchanged(s, j)})
\* the last n elements of s are the same count
SameCountRun(s, n) ==
    /\ Len(s) >= n
    /\ \A k \in (Len(s) - n + 1) .. Len(s) : s[k] = s[Len(s)]

\* C11 as claimed: for any injected list the loop is over as soon as the same
\* count was observed max_no_change_attempts times in a row, and when the list
\* holds such a run it never reads more counts than the list holds
C11_Original ==
    /\ SameCountRun(Observed, sc.max) => sc.no_change_count >= sc.max
    /\ (\E k \in 1 .. Len(sc.feed0) : SameCountRun(SubSeq(sc.feed0, 1, k), sc.max)) =>
          sc.obs <= Len(sc.feed0)

\* C11 amended: the loop is over as soon as max_no_change_attempts observations
\* in a row found the count equal to the one before it (to 0 for the first
\* observation), that is after the same count was observed
\* max_no_change_attempts + 1 times in a row, or max_no_change_attempts times
\* when that count is 0 from the first observation on; it then returns the last
\* observed count and has read no more counts than the list holds; a list
\* without such a run is read to its end and one read past it
C11_Convergence ==
    /\ sc.no_change_count = NoChangeRun(Observed)
    /\ sc.obs > 0 /\ sc.pc # "raised" => sc.last_count = sc.feed0[sc.obs]
    /\ sc.pc = "done" =>
          /\ sc.no_change_count = sc.max
          /\ sc.obs <= Len(sc.feed0)
          /\ sc.last_count = Observed[Len(Observed)]
    /\ sc.no_change_count >= sc.max => sc.pc \in {"loop", "done"}
    /\ sc.pc = "raised" =>
          /\ sc.obs = Len(sc.feed0) + 1
          /\ \A k \in 1 .. Len(sc.feed0) : NoChangeRun(SubSeq(sc.feed0, 1, k)) < sc.max

\* C11 witness: counts 0, 1, 1, 1 with max_no_change_attempts = 2 return 1
\* after the second repeated 1
C11_Witness ==
    /\ sc.pc = "done"
    /\ sc.feed0 = <<0, 1, 1, 1>>
    /\ sc.max = 2
    /\ sc.obs = 4
    /\ sc.last_count = 1

\* C12 as claimed: the scroll loop never raises; a driver read that fails
\* leaves the call in its loop (counted as an observation without change) and
\* the call still returns a count
C12_NeverRaises ==
    [][(sc.pc = "loop" /\ sc'.pc # "done") =>
          /\ sc'.pc = "loop"
          /\ sc'.no_change_count <= sc.no_change_count + 1]_vars

RECURSIVE SumCounts(_, _)
SumCounts(counts, pages) ==
    IF pages = <<>> THEN 0 ELSE counts[Head(pages)] + SumCounts(counts, Tail(pages))

\* the next-page link of every page but the last leads to the page after it
ForwardChain(l) ==
    \A i \in 1 .. l.n : l.links[i] = (IF i < l.n THEN i + 1 ELSE NoLink)

\* C13: after every processed page pages_processed is the number of pages
\* parsed so far and the accumulator holds the sum of their counts; on a
\* listing of N pages with a next-page link on pages 1..N-1 only, the scraper
\* finishes with the sum of all counts and pages_processed = N
C13_PaginationTotals ==
    /\ pg.pages_processed = Len(pg.trail)
    /\ pg.total_products = SumCounts(pg.listing.counts, pg.trail)
    /\ (ForwardChain(pg.listing) /\ pg.pc = "done") =>
          /\ pg.pages_processed = pg.listing.n
          /\ pg.total_products =
                SumCounts(pg.listing.counts, [i \in 1 .. pg.listing.n |-> i])

\* C13 witness: three pages with 2, 0 and 1 products finish with 3 and 3
C13_Witness ==
    /\ pg.pc = "done"
    /\ ForwardChain(pg.listing)
    /\ pg.listing.n = 3
    /\ pg.listing.counts = <<2, 0, 1>>
    /\ pg.total_products = 3
    /\ pg.pages_processed = 3

\* C14 as claimed: every page is navigated to, scrolled and parsed at most once
\* per run, whatever the next-page links of the listing
C14_VisitedOnce ==
    \A j, k \in 1 .. Len(pg.trail) : pg.trail[j] = pg.trail[k] => j = k

\* C15: an attempt that finds the cancellation flag set when it begins returns
\* interrupted, also for an item updated today, without a render session and
\* without a write
C15_InterruptFirst ==
    [][(pc = "entry" /\ shutdown_requested /\ pc' # "entry") =>
          /\ pc' = "returned"
          /\ result'.status = "interrupted"
          /\ ~att'.rendered
          /\ att'.writes = {}
          /\ dbVars' = dbVars]_vars

\* C15 witness: an item updated today, without force, was reported interrupted
C15_Witness ==
    /\ pc = "returned"
    /\ result.status = "interrupted"
    /\ ~att.rendered
    /\ ~force
    /\ was_updated_today(CurAsin)

\* the blocking terms the claims list
ListedTerms == {"captcha", "429", "503", "blocked", "denied", "forbidden"}
Caught == pc = "returned" /\ att.fault.type \in FaultTypes

\* C16 as claimed: a fault whose message holds one of the listed terms, in any
\* case, is classified server_error whatever the type of the fault
C16_VocabularyFirst ==
    (Caught /\ att.fault.msg.word \in ListedTerms) => result.status = "server_error"

\* C17 as claimed: without one of the listed terms in its message a connectivity
\* or timeout fault is network_error, any other fault is unknown_error, and no
\* fault is server_error
C17_Original ==
    (Caught /\ att.fault.msg.word \notin ListedTerms) =>
        /\ att.fault.type \in {"ConnectionError", "TimeoutError"} =>
              result.status = "network_error"
        /\ att.fault.type = "Exception" => result.status = "unknown_error"
        /\ result.status # "server_error"

\* C17 amended: the same with "rate" among the blocking terms: without one of
\* captcha, 503, 429, rate, blocked, denied, forbidden in its message a
\* connectivity or timeout fault is network_error, any other fault is
\* unknown_error, and no fault is server_error
C17_FaultRules ==
    (Caught /\ att.fault.msg.word \notin ListedTerms \cup {"rate"}) =>
        /\ att.fault.type \in {"ConnectionError", "TimeoutError"} =>
              result.status = "network_error"
        /\ att.fault.type = "Exception" => result.status = "unknown_error"
        /\ result.status # "server_error"

\* C17 witness: a timeout without blocking vocabulary was classified
\* network_error
C17_Witness ==
    /\ pc = "returned"
    /\ att.fault = [type |-> "TimeoutError", msg |-> [word |-> "other", upper |-> TRUE]]
    /\ result.status = "network_error"

Scraped == pc = "returned" /\ att.rendered /\ att.fault = NoFault
AllUnknown(d) == d.price = "NA" /\ ~d.rating /\ ~d.brand /\ ~d.total_reviews
Saved == att.committed \cap {"details", "price"} # {}

OutcomeKind(d, f, saved) ==
    IF f.type = "KeyboardInterrupt" THEN "interrupted"
    ELSE IF f.type \in {"ConnectionError", "TimeoutError"} THEN "network_error"
    ELSE IF f.type = "Exception"
         THEN IF f.msg.word # "other" THEN "server_error" ELSE "unknown_error"
    ELSE IF AllUnknown(d) THEN "server_error"
    ELSE IF d.price = "NA" /\ ~d.rating THEN "no_data"
    ELSE IF saved THEN "success" ELSE "no_data"

Undisturbed ==
    /\ pc = "done"
    /\ ~stats.interrupted
    /\ sel.clean
    /\ DateOf(sel.last["B"]) = DateOf(sel.now)
    /\ DateOf(now) = DateOf(sel.now)

\* what the scenario expects of the finished run
ScenarioReport ==
    /\ stats.total = Cardinality(Asins)
    /\ stats.success = 1 /\ stats.skipped = 1 /\ stats.server_errors = 1
    /\ stats.no_data = 0 /\ stats.network_errors = 0 /\ stats.other_errors = 0
    /\ review_rows["A"] = [r \in ReviewIds |-> IF r \in Keys(ThreeReviewPage.reviews)
                                                THEN 1 ELSE 0]
    /\ has_details["A"] /\ last_details_scrape["A"] # NULL
    /\ \A a \in Asins \ {"A"} : last_details_scrape[a] = sel.last[a]

\* C20 as stated: on the catalog A (three reviews on the page, one stored),
\* B (updated today), C (blocked), an undisturbed run reports total 3,
\* success 1, skipped 1, server errors 1, nothing else, stores exactly the two
\* new reviews of A and updates the status of A alone
C20_Original == Undisturbed => ScenarioReport

\* C20: the same, for a run with days_threshold 0 that starts after the update
\* of B (with a larger threshold, or started at the instant of the update, the
\* query leaves B out of the work list)
C20_EndToEnd ==
    (Undisturbed /\ days_threshold = 0 /\ sel.last["B"] < sel.now) => ScenarioReport

C20_Witness ==
    /\ Undisturbed /\ days_threshold = 0 /\ sel.last["B"] < sel.now
    /\ stats.total = Cardinality(Asins)
    /\ phase["B"] = "GATED"
    /\ StoredKeys(review_rows["A"]) = Keys(ThreeReviewPage.reviews)

\* ---------------------------------------------------------------- C21
\* C21: at most one render session is open at any point, and none is open
\* while no scraper call is under way: the session of a call is released
\* before the call returns, on the fault paths too, so none is open when the
\* next call starts
C21_SessionScoped ==
    /\ drv.open <= 1
    /\ drv.pc \in {"idle", "init", "returned"} => drv.open = 0

\* the next call starts after a call that faulted with its session open
C21_Witness ==
    /\ drv.pc = "init"
    /\ drv.log # <<>>
    /\ drv.log[Len(drv.log)] = "fault_open"

\* ---------------------------------------------------------------- C22
\* C22: the report of a run that worked on its list and ended says
\* interrupted exactly when the cancellation flag was set during the run, also
\* when it was set while the last item of the list was being processed
C22_InterruptedReported ==
    (pc = "done" /\ products # <<>>) => (stats.interrupted <=> shutdown_requested)

\* ---------------------------------------------------------------- C23
Finished == {"GATED", "ATTEMPTED"}

\* C23: work on an item (a change of its phase) is work on the idx-th item of
\* the list, every item before it in the list is finished, no item after it
\* has been begun, and the item itself was not finished before (at most once
\* per run); an item is begun only at the entry of its attempt, after the
\* result of the item before it was accounted for and its delay applied
C23_Sequential ==
    [][\A a \in Asins : phase'[a] # phase[a] =>
          /\ idx \in 1 .. Len(products)
          /\ a = products[idx]
          /\ idx' = idx
          /\ \A k \in 1 .. (idx - 1) : phase[products[k]] \in Finished
          /\ \A k \in (idx + 1) .. Len(products) : phase[products[k]] = "PENDING"
          /\ phase[a] \notin Finished
          /\ phase[a] = "PENDING" => (pc = "entry" /\ result = NoResult)]_vars

\* the second item of a list is being attempted
C23_Witness ==
    /\ Len(products) >= 2
    /\ idx = 2
    /\ phase[products[1]] \in Finished
    /\ phase[products[2]] = "ATTEMPTING"

\* ---------------------------------------------------------------- C24
\* the ranges the claim gives per outcome, in tenths of a second
ClaimedRange(st) ==
    CASE st = "success" -> <<30, 80>>
      [] st = "skipped" -> <<5, 15>>
      [] st = "server_error" -> <<300, 600>>
      [] st = "network_error" -> <<100, 200>>
      [] OTHER -> <<50, 100>>

\* C24: the delay applied after an item has the range the claim gives for the
\* outcome of that item, whatever the item and the state of the run; a delay
\* is applied only when the result of an item is accounted for, once; the
\* chain of run_etl_for_latest_top100 picks the same policy
C24_DelayPolicy ==
    [][/\ last_delay' # last_delay => pc = "returned"
       /\ (pc = "returned" /\ pc' = "loop") =>
             /\ last_delay' # "none" =>
                   DelayRange(last_delay') = ClaimedRange(result.status)
             /\ DelayForTop100(result.status) = DelayFor(result.status)]_vars

\* a delay of the network-error range was applied after a first item
C24_Witness ==
    /\ pc = "loop"
    /\ idx = 2
    /\ last_delay = "network_error"

\* ---------------------------------------------------------------- C25
\* C25: in the save path of an attempt (lines 800-814, not the partial save
\* after a KeyboardInterrupt), a failed details write leaves the
\* details store as it was and does not keep the price write from being tried
\* nor from committing; a committed details write stays (one more row)
\* whatever becomes of the price write; a failed price write leaves the price
\* store as it was
C25_SeparateUnits ==
    [][(pc = "scrape" /\ pc' = "returned" /\ "details" \in att'.writes
                        /\ att'.fault # Interrupt) =>
          LET a == att'.asin
              w == att'.writes
              c == att'.committed
          IN  /\ "details" \notin c => details_rows'[a] = details_rows[a]
              /\ "details" \in c => details_rows'[a] = details_rows[a] + 1
              /\ PriceUsable(page[a]) => "price" \in w
              /\ "price" \in c => /\ DateOf(now) \in price_history'[a]
                                  /\ has_price_history'[a]
              /\ "price" \in w \ c => /\ price_history'[a] = price_history[a]
                                      /\ has_price_history'[a] = has_price_history[a]]_vars

\* the details write failed and the price write of the same attempt committed
C25_Witness ==
    /\ pc = "returned"
    /\ "details" \in att.writes \ att.committed
    /\ "price" \in att.committed
    /\ DateOf(now) \in price_history[att.asin]

\* ---------------------------------------------------------------- C26
\* C26: after any sequence of price saves the store holds at most one row per
\* (item, day), a row exactly when a save of that item and day committed,
\* with the price of the most recent such save; and an item is marked as
\* having price history exactly when a save of it committed
C26_PricePoints ==
    \A a \in Asins :
       /\ \A d \in Days :
             /\ Len(pr.rows[a][d]) <= 1
             /\ pr.rows[a][d] = <<>> <=> pr.latest[a][d] = NULL
             /\ pr.rows[a][d] # <<>> => pr.rows[a][d][1] = pr.latest[a][d]
       /\ pr.has[a] <=> \E d \in Days : pr.latest[a][d] # NULL

\* a save committed over a price point of the same item and day that held
\* another price, and the item has a price point of an earlier day too
C26_Witness ==
    /\ pr.over
    /\ pr.latest["A"][DateOf(now)] # NULL
    /\ \E d \in Days : d < DateOf(now) /\ pr.latest["A"][d] # NULL

\* ---------------------------------------------------------------- C27
\* C27: raw.product_details holds at most one row per item, however often the
\* item was scraped with success
C27_OneRowPerItem == \A a \in Asins : details_rows[a] <= 1

\* ---------------------------------------------------------------- C28
\* ScrapeResult.should_retry: the outcomes that are transient
Retryable(stats_) == stats_.server_errors + stats_.network_errors > 0

\* C28: the wrapper calls the batch entry point at most max_retries times,
\* and calls it again only when the run before reported a retryable outcome
\* (server error or network error)
C28_RetryWrapper ==
    [][wr'.runs # wr.runs =>
          /\ wr'.runs <= max_retries
          /\ wr.runs > 0 => Retryable(wr.stats)]_vars

\* ---------------------------------------------------------------- C29
\* C29: after a first signal no further item is begun, and after a second
\* signal the run is quit at once: an attempt that is scraping then does not
\* go on to return its result
C29_ForceQuit ==
    [][/\ (signals >= 1 /\ pc = "loop") => pc' \in {"loop", "done"}
       /\ (signals >= 2 /\ pc = "scrape") => pc' # "returned"]_vars

\* ---------------------------------------------------------------- C30
\* C30: a pass that observes the count (the position after the step reached
\* the height read before the step) ends with the position at that height
\* when the height read after the observation is larger, and at the position
\* after the step otherwise
C30_Clamp ==
    [][(sc.pc = "loop" /\ sc'.pc = "loop"
          /\ Min(sc.scroll_position + sc.step, MaxPos) >= sc.height) =>
             sc'.scroll_position = IF sc'.height > sc.height
                                   THEN sc.height
                                   ELSE Min(sc.scroll_position + sc.step, MaxPos)]_vars

\* a pass found the page grown and set the position back below the position
\* it had scrolled to
C30_Witness ==
    /\ sc.pc = "loop"
    /\ sc.clamped
    /\ sc.last_count > 0
    /\ sc.scroll_position < sc.height

\* ---------------------------------------------------------------- C31
\* the items the latest-listing run fetched were selected from the catalog
ListFetched == entry_point = "top100" /\ pc # "start" /\ sel.now > 0

\* never scraped for details, or last scraped on an earlier calendar day
EarlierDay(a) ==
    \/ sel.last[a] = NULL
    \/ DateOf(sel.last[a]) < DateOf(sel.now)

\* C31 as claimed: an item of the latest listing scrape is returned exactly
\* when the pending query with the default threshold would take it
C31_Original ==
    ListFetched =>
        \A a \in catalog \cap latest_batch :
            a \in Keys(products) <=> Eligible(a, DefaultDaysThreshold)

\* C31: the latest-listing query returns only items of the latest listing
\* scrape that were never scraped for details or were last scraped on an
\* earlier calendar day, all of them when the list is shorter than the limit;
\* every item of the latest scrape the pending query with the default
\* threshold would take is such an item
C31_LatestRule ==
    ListFetched =>
        /\ Keys(products) \subseteq {a \in catalog \cap latest_batch : EarlierDay(a)}
        /\ Len(products) < Top100Limit =>
              \A a \in catalog \cap latest_batch : EarlierDay(a) => a \in Keys(products)
        /\ \A a \in catalog \cap latest_batch :
              Eligible(a, DefaultDaysThreshold) => EarlierDay(a)

\* the latest-listing run took an item that was scraped yesterday, less than
\* a day ago, and left out one that is not in the latest listing scrape
C31_Witness ==
    /\ ListFetched
    /\ "A" \in Keys(products)
    /\ sel.last["A"] # NULL
    /\ ~Eligible("A", DefaultDaysThreshold)
    /\ "B" \in catalog \ latest_batch
    /\ "B" \notin Keys(products)

\* ---------------------------------------------------------------- C32
\* C32: the inserted count a loader call returns is the number of review rows
\* the call added to the store, whatever the incoming list, a list that holds
\* one review key more than once included
C32_InsertedIsAdded ==
    LdReturned => ld.inserted = Cardinality(LdAdded)

\* ---------------------------------------------------------------- C33
\* the sum of the six outcome counters of the report
StatSum ==
    stats.success + stats.skipped + stats.no_data + stats.server_errors
        + stats.network_errors + stats.other_errors

Settled(a) == phase[a] \in {"GATED", "ATTEMPTED"}

\* C33: at every point the six outcome counters add up to the number of
\* items whose attempt has returned a non-interrupted outcome and was taken
\* into the report: these are the items before the loop position, each of
\* them settled, and no item after the position was begun; the sum never
\* exceeds total, and equals total when the run ends without cancellation
\* and without a fatal fault
C33_Accounting ==
    /\ StatSum = idx - 1
    /\ idx - 1 <= Len(products)
    /\ \A k \in 1 .. Len(products) :
          /\ k < idx => Settled(products[k])
          /\ k > idx => phase[products[k]] = "PENDING"
    /\ StatSum <= stats.total
    /\ (pc = "done" /\ ~stats.interrupted) => StatSum = stats.total

\* a latest-listing run of two items ended without cancellation: one attempt
\* succeeded, one was blocked by the server
C33_Witness ==
    /\ entry_point = "top100"
    /\ pc = "done"
    /\ ~stats.interrupted
    /\ stats.total = 2
    /\ stats.success = 1
    /\ stats.server_errors = 1

\* ---------------------------------------------------------------- C34
\* the catalog status of an item is changed in this step
StatusModified ==
    \/ has_details' # has_details
    \/ last_details_scrape' # last_details_scrape

\* C34 as claimed: a result with status success has details_saved or
\* price_saved, and the catalog status is modified only by an attempt that
\* returns success
C34_Original ==
    [][/\ (pc' = "returned" /\ result'.status = "success") =>
             (result'.details_saved \/ result'.price_saved)
       /\ StatusModified => (pc' = "returned" /\ result'.status = "success")]_vars

\* C34: a result with status success has details_saved or price_saved; the
\* catalog status is modified only for the item of the attempt, and only by
\* an attempt that returns success or by one that a KeyboardInterrupt cut
\* short after its status mark had committed, which returns interrupted
C34_SuccessSaved ==
    [][/\ (pc' = "returned" /\ result'.status = "success") =>
             (result'.details_saved \/ result'.price_saved)
       /\ StatusModified =>
             /\ pc' = "returned"
             /\ \A a \in Asins \ {CurAsin} :
                   /\ has_details'[a] = has_details[a]
                   /\ last_details_scrape'[a] = last_details_scrape[a]
             /\ \/ result'.status = "success"
                \/ /\ result'.status = "interrupted"
                   /\ att'.fault = Interrupt
                   /\ "status" \in att'.committed]_vars

\* an attempt returned success with the price point saved and the details
\* not, and its status mark moved last_details_scrape of an item scraped before
C34_Witness ==
    /\ pc = "returned"
    /\ result.status = "success"
    /\ result.price_saved
    /\ ~result.details_saved
    /\ att.pre_last # NULL
    /\ last_details_scrape[CurAsin] # att.pre_last

\* ---------------------------------------------------------------- C35
\* C35: after a batch run that reported it was cancelled, the retry wrapper
\* starts no further run, whatever error counts that run reported
C35_CancelEndsRetries ==
    [][(wr.runs > 0 /\ wr.stats.interrupted) => wr'.runs = wr.runs]_vars

\* ---------------------------------------------------------------- C36
\* C36: no attempt returns parse_error: every attempt ends in one of success,
\* skipped, no_data, server_error, network_error, interrupted, unknown_error
C36_NoParseError ==
    pc = "returned" => result.status \in Statuses \ {"parse_error"}

\* a page was rendered and no usable field came out of it: the attempt
\* returned no_data
C36_Witness ==
    /\ pc = "returned"
    /\ att.rendered
    /\ ~att.valid
    /\ att.fault = NoFault
    /\ result.status = "no_data"

\* ---------------------------------------------------------------- C37
\* C37: the batch run gives its caller the report on every exit path and
\* never an exception; a run whose connection could not be established
\* reports total 0 and every count 0, as a run does that found no pending item
C37_AlwaysReturns ==
    /\ ret # "raised"
    /\ pc \in Terminal <=> ret = "stats"
    /\ (pc = "aborted" /\ conn = "none") => stats = NoStats
    /\ (pc = "done" /\ products = <<>>) => stats = NoStats

\* the connection could not be established and the run returned its report
C37_Witness ==
    /\ pc = "aborted"
    /\ conn = "none"
    /\ ret = "stats"
    /\ stats.total = 0

\* ---------------------------------------------------------------- C38
\* C38: when a run of either entry point has ended, by whatever path, the
\* signal handlers of the run are no longer installed and no connection of
\* the run is open; while it runs past its start the connection is open
C38_Restored ==
    /\ pc \in Terminal => (~handlers_installed /\ conn # "open")
    /\ (pc \notin Terminal /\ pc # "start") => (handlers_installed /\ conn = "open")

\* a latest-listing run ended by a fault after it had fetched its list: the
\* connection it had opened is closed
C38_Witness ==
    /\ entry_point = "top100"
    /\ pc = "aborted"
    /\ products # <<>>
    /\ conn = "closed"
    /\ ~handlers_installed

\* ---------------------------------------------------------------- C39
\* C39: when the outcome of an item is taken into the report, a delay is
\* applied exactly when the item is not the last of the list and the
\* cancellation flag is not set at that moment; an interrupted outcome is
\* followed by no delay, and no delay is applied at any other step
C39_DelayPlacement ==
    [][/\ (pc = "returned" /\ pc' = "loop") =>
             /\ result.status # "interrupted"
             /\ last_delay' # "none" <=> (idx < Len(products) /\ ~shutdown_requested)
       /\ (pc = "returned" /\ pc' = "done") =>
             (result.status = "interrupted" /\ last_delay' = last_delay)
       /\ pc # "returned" => last_delay' = last_delay]_vars

\* the flag was set while the first of two items was processed: its outcome
\* was counted and no delay was applied
C39_Witness ==
    /\ pc = "loop"
    /\ idx = 2
    /\ Len(products) = 2
    /\ StatSum = 1
    /\ shutdown_requested
    /\ last_delay = "none"

\* ---------------------------------------------------------------- C40
\* C40: every row the listing ETL loaded carries as rank_position the
\* 1-based position its product has in the scraped listing, also when a
\* product before it was dropped for a missing asin or name
C40_RankIsPosition ==
    etl.pc = "loaded" =>
        \A k \in 1 .. Len(etl.records) :
            LET r == etl.records[k]
            IN  /\ r.rank_position \in 1 .. Len(etl.products)
                /\ etl.products[r.rank_position].asin = r.asin
                /\ etl.products[r.rank_position].name = r.product_name

====
